---- MODULE Spec2Model ----
(***************************************************************************)
(* yt-shortmaker: the chunk planner (video.rs), the credential pools of    *)
(* the two provider clients (ai/google.rs, ai/openrouter.rs) and their     *)
(* process_chunk retry loops.                                              *)
(*                                                                         *)
(* Vectors are modelled as functions over 0..n-1 so that index arithmetic  *)
(* reads as in the source.  Option<T> is a set with at most one element.   *)
(***************************************************************************)
EXTENDS Integers, Sequences, FiniteSets, TLC

\* ------------------------------------------------------------------ bounds
MaxDuration == 5500
MaxKeys == 3
NumSecrets == 2
NumProcs == 2
MaxCursor == 4
MaxCalls == 4
MaxInterference == 2
MaxLen == 2
MaxMoments == 2
MaxPhrases == 1
MaxFound == 1
MaxTasks == 2
MaxAdjust == 2

\* ------------------------------------------------------- program constants
chunk_size == 30 * 60
max_last_chunk == 45 * 60
\* `for _ in 0..60` of wait_for_file_active
PollLimit == 60

VARIABLES
  \* calculate_chunks (video.rs)
  total_duration_seconds, chunks, planner_pc,
  \* analyze_video_internal (ai/google.rs): the moments of the parsed
  \* response, the vector `moments` whose times are adjusted; history: the
  \* offsets it has been adjusted by
  analysis_response, analysis_moments, adjusted_by,
  \* run_command_with_cancellation (video.rs): position, the child process,
  \* the Result returned; history: the flag as it was when the call was
  \* made and when the child finished
  cmd_pc, child, cmd_result, called_cancelled, exited_cancelled,
  \* download_high_res (video.rs): position, attempt, the Result returned;
  \* history: the commands spawned
  hr_pc, attempt, hr_result, commands,
  \* the chunks of a run (main.rs, video.rs): position, the indices i of
  \* the files chunk_i.mp4 in temp_chunks_dir, the vector video_chunks, the
  \* index of the loop of split_video, the error returned
  split_pc, chunk_files, video_chunks, split_i, split_result,
  \* GoogleClient (ai/google.rs): the pool and its cursor
  api_keys, current_key_index,
  \* callers of the pool's methods: position, locals, return value
  pc, start_index, attempts, key_value, result,
  \* history: entries a completed disable_key call has flipped, what each
  \* get_active_key call could know of them when it was called, rotate_key
  \* calls completed, the entry the running disable_key call flipped, and
  \* the number of method calls made so far
  disabled_done, seen_disabled, rotations, flipped, calls,
  \* GoogleClient::process_chunk: position, the key of the attempt, the
  \* Result of the last await; history: the key whose attempt just ended in
  \* a quota failure
  g_pc, key_arc, last_result, quota_key,
  \* wait_for_file_active: polls made by the running call; history: the pool entries whose
  \* secret the requests of the running attempt were sent with
  polls, request_keys,
  \* run_processing (main.rs): the for loop over video_chunks
  d_pc, chunk_i, chunks_analyzed, cancellation_token, active_provider,
  chunk_result,
  \* the session (main.rs): url, all_moments and temp_dir of run_app and
  \* run_processing, the file temp.json, the position of the save_session
  \* call, the session run_app has loaded, app.screen
  url, all_moments, temp_dir, session_file, save_pc, session, screen,
  \* save_session: the local json; history: the file as it was when
  \* save_session was called
  json, saved_before,
  \* the directory temp_dir is there
  temp_dir_exists,
  \* run_processing: its return value; the moments the provider finds in
  \* each chunk; history: all_moments as the run received it, the chunks
  \* whose analysis returned Ok, and the chunk that was in the readiness
  \* poll loop when the run was cancelled
  returned, provider_moments, existing, completed, cancelled_polling,
  \* run_processing after the loop and run_extraction: the variant of the
  \* Result returned and its directory, the index of the clip loop;
  \* history: the calls of download_high_res made by the fallback, and
  \* whether the loop was left because the keys were exhausted
  run_result, shorts_dir, clip_i, fallback_downloads, exhausted,
  \* run_app (main.rs): the position in the event loop, processing_started,
  \* the messages sent and not yet received, the spawned tasks
  ui_pc, processing_started, channel, tasks,
  \* OpenRouterClient (ai/openrouter.rs): the pool, its cursor, the callers
  \* of its methods; history: rotate_key calls completed
  or_api_keys, or_current_key_index, or_pc, or_next, or_result, or_rotations,
  \* OpenRouterClient::process_chunk: position, attempts, the key of the
  \* request, what `.send().await` gave for it; history: the keys a 429
  \* was answered for
  o_pc, o_attempts, o_key, o_response, or_quota_keys

adjustVars == <<analysis_response, analysis_moments, adjusted_by>>
commandVars == <<cmd_pc, child, cmd_result, called_cancelled,
                 exited_cancelled>>
downloadVars == <<hr_pc, attempt, hr_result, commands>>
splitVars == <<split_pc, chunk_files, video_chunks, split_i, split_result>>
videoVars == <<commandVars, downloadVars, splitVars>>
plannerVars == <<total_duration_seconds, chunks, planner_pc, adjustVars,
                 videoVars>>
poolVars == <<api_keys, current_key_index>>
callVars == <<pc, start_index, attempts, key_value, result>>
histVars == <<disabled_done, seen_disabled, rotations, flipped, calls>>
gVars == <<g_pc, key_arc, last_result, quota_key, polls, request_keys>>
loopVars == <<d_pc, chunk_i, chunks_analyzed, cancellation_token,
              active_provider>>
sessionVars == <<url, all_moments, temp_dir, session_file, save_pc, session,
                 screen, json, saved_before, temp_dir_exists>>
endVars == <<run_result, shorts_dir, clip_i, fallback_downloads, exhausted>>
runVars == <<returned, provider_moments, existing, completed,
             cancelled_polling, endVars>>
appVars == <<ui_pc, processing_started, channel, tasks>>
dVars == <<loopVars, chunk_result, sessionVars, runVars, appVars>>
orPoolVars == <<or_api_keys, or_current_key_index, or_pc, or_next, or_result,
                or_rotations>>
oVars == <<o_pc, o_attempts, o_key, o_response, or_quota_keys>>
googleVars == <<poolVars, callVars, histVars, gVars>>
openRouterVars == <<orPoolVars, oVars>>
vars == <<plannerVars, googleVars, dVars, openRouterVars>>

None == {}
Some(x) == {x}
Procs == 1..NumProcs
\* the task spawned by run_app that runs run_processing
Main == 1
Secrets == 1..NumSecrets

\* ------------------------------------------------------------ video.rs
\* `if remaining <= max_last_chunk`
IsLastChunkStrict(remaining) == remaining < max_last_chunk
IsLastChunkAtSize(remaining) == remaining <= chunk_size
IsLastChunk(remaining) == remaining <= max_last_chunk

\* `current_time += chunk_size`
AdvanceByMax(current_time) == current_time + max_last_chunk
Advance(current_time) == current_time + chunk_size

\* the while loop of calculate_chunks, one iteration per unfolding
RECURSIVE ChunkLoop(_, _, _)
ChunkLoop(total, current_time, acc) ==
  IF ~(current_time < total) THEN acc
  ELSE LET remaining == total - current_time IN
       IF IsLastChunk(remaining)
       THEN Append(acc, <<current_time, remaining>>)
       ELSE ChunkLoop(total, Advance(current_time),
                      Append(acc, <<current_time, chunk_size>>))

calculate_chunks(total) == ChunkLoop(total, 0, <<>>)

\* no command is running
CommandIdle ==
  /\ cmd_pc = "idle"
  /\ child = "none"
  /\ cmd_result = "none"
  /\ called_cancelled = FALSE
  /\ exited_cancelled = FALSE
\* download_high_res is not called, the chunks are not being made
VideoIdle ==
  /\ CommandIdle
  /\ hr_pc = "idle"
  /\ attempt = 1
  /\ hr_result = "none"
  /\ commands = 0
  /\ split_pc = "idle"
  /\ chunk_files = {}
  /\ video_chunks = <<>>
  /\ split_i = 0
  /\ split_result = "none"
\* no response is being adjusted, no video function is running
AdjustIdle ==
  /\ analysis_response = <<>>
  /\ analysis_moments = <<>>
  /\ adjusted_by = <<>>
  /\ VideoIdle

PlannerInit ==
  /\ total_duration_seconds \in 0..MaxDuration
  /\ chunks = <<>>
  /\ planner_pc = "call"
  /\ AdjustIdle

PlannerIdle ==
  /\ total_duration_seconds = 0
  /\ chunks = <<>>
  /\ planner_pc = "ret"
  /\ AdjustIdle

CalculateChunks ==
  /\ planner_pc = "call"
  /\ chunks' = calculate_chunks(total_duration_seconds)
  /\ planner_pc' = "ret"
  /\ UNCHANGED <<total_duration_seconds, adjustVars, videoVars>>

\* `format!("{:02}:{:02}:{:02}", hours, minutes, secs)`: a u64 in decimal,
\* with a leading 0 when it has one digit
DecimalDigits == <<"0", "1", "2", "3", "4", "5", "6", "7", "8", "9">>
RECURSIVE Decimal(_)
Decimal(n) ==
  IF n < 10 THEN <<DecimalDigits[n + 1]>>
  ELSE Append(Decimal(n \div 10), DecimalDigits[(n % 10) + 1])
\* the same cut to its last two digits
Pad2Cut(n) ==
  <<DecimalDigits[((n \div 10) % 10) + 1], DecimalDigits[(n % 10) + 1]>>
Pad2(n) == IF n < 10 THEN <<"0">> \o Decimal(n) ELSE Decimal(n)
format_seconds_to_timestamp(seconds) ==
  Pad2(seconds \div 3600) \o <<":">> \o Pad2((seconds % 3600) \div 60)
    \o <<":">> \o Pad2(seconds % 60)

\* `timestamp.split(':').collect()`
RECURSIVE Split(_)
Split(str) ==
  IF \A k \in 1..Len(str) : str[k] # ":" THEN <<str>>
  ELSE CHOOSE parts \in
         {<<SubSeq(str, 1, k - 1)>> \o Split(SubSeq(str, k + 1, Len(str))) :
            k \in {k \in 1..Len(str) :
                     str[k] = ":" /\ \A j \in 1..(k - 1) : str[j] # ":"}} :
         TRUE
\* `parts[k].parse::<u64>()`: decimal digits, at least one, after an
\* optional plus sign
IsDigit(ch) == \E k \in 1..10 : DecimalDigits[k] = ch
RECURSIVE ValueOf(_)
ValueOf(ds) ==
  IF ds = <<>> THEN 0
  ELSE 10 * ValueOf(SubSeq(ds, 1, Len(ds) - 1))
       + (CHOOSE k \in 0..9 : DecimalDigits[k + 1] = ds[Len(ds)])
Unsigned(part) ==
  IF part # <<>> /\ Head(part) = "+" THEN Tail(part) ELSE part
ParseU64(part) ==
  IF Unsigned(part) # <<>>
     /\ \A k \in 1..Len(Unsigned(part)) : IsDigit(Unsigned(part)[k])
  THEN Some(ValueOf(Unsigned(part)))
  ELSE None
\* parse_timestamp_to_seconds: Some(seconds) for Ok, None for Err
parse_timestamp_to_seconds(timestamp) ==
  IF Len(Split(timestamp)) # 3 THEN None
  ELSE IF \E k \in 1..3 : ParseU64(Split(timestamp)[k]) = None THEN None
  ELSE {hours * 3600 + minutes * 60 + seconds :
          hours \in ParseU64(Split(timestamp)[1]),
          minutes \in ParseU64(Split(timestamp)[2]),
          seconds \in ParseU64(Split(timestamp)[3])}
\* `.unwrap_or(0)`
unwrap_or(option, default) ==
  IF option = None THEN default ELSE CHOOSE x \in option : TRUE

\* run_command_with_cancellation: `command.spawn().context(..)?`
RunCommandSpawn(flag) ==
  /\ cmd_pc = "spawn"
  /\ called_cancelled' = flag
  /\ \/ /\ child' = "running"
        /\ cmd_pc' = "select"
        /\ commands' = commands + 1
        /\ UNCHANGED cmd_result
     \/ /\ cmd_pc' = "ret"
        /\ cmd_result' = "Failed to spawn command"
        /\ UNCHANGED <<child, commands>>
  /\ UNCHANGED exited_cancelled
\* the child process ends by itself, with a status
ChildExits(flag) ==
  /\ child = "running"
  /\ child' \in {"success", "failure"}
  /\ exited_cancelled' = flag
  /\ UNCHANGED <<cmd_pc, cmd_result, called_cancelled, commands>>
\* `tokio::select!`, the branch of output_future: the child has ended
RunCommandOutput ==
  /\ cmd_pc = "select"
  /\ child \in {"success", "failure"}
  /\ cmd_result' \in {child, "Failed to wait on child process"}
  /\ cmd_pc' = "ret"
  /\ UNCHANGED <<child, called_cancelled, exited_cancelled, commands>>
\* `tokio::select!`, the branch of cancellation_future: a load of the flag,
\* made every 100 ms, has found it set; output_future is dropped and with
\* it a child that is still running (kill_on_drop)
RunCommandCancelled(flag) ==
  /\ cmd_pc = "select"
  /\ flag
  /\ cmd_result' = "Process cancelled by user"
  /\ child' = IF child = "running" THEN "killed" ELSE child
  /\ cmd_pc' = "ret"
  /\ UNCHANGED <<called_cancelled, exited_cancelled, commands>>

\* what run_command_with_cancellation returns
CommandResults ==
  {"success", "failure", "Failed to wait on child process",
   "Process cancelled by user", "Failed to spawn command"}

\* split_video: one pass of `for (i, (start, duration)) in chunks`: the
\* check of the flag, the ffmpeg command writing chunk_i.mp4, the push.  A
\* command that was spawned and did not succeed may have left its file
VideoChunk(start, i) == [start_seconds |-> start, file_path |-> i]
SplitVideo(flag) ==
  /\ split_pc = "split_video"
  /\ IF split_i >= Len(chunks)
     THEN /\ split_pc' = "analyze"
          /\ UNCHANGED <<chunk_files, video_chunks, split_i, split_result>>
     ELSE IF flag
     THEN /\ split_pc' = "err"
          /\ split_result' = "Process cancelled by user"
          /\ UNCHANGED <<chunk_files, video_chunks, split_i>>
     ELSE \E r \in CommandResults :
            IF r = "success"
            THEN /\ chunk_files' = chunk_files \cup {split_i}
                 /\ video_chunks' =
                      Append(video_chunks,
                             VideoChunk(chunks[split_i + 1][1], split_i))
                 /\ split_i' = split_i + 1
                 /\ UNCHANGED <<split_pc, split_result>>
            ELSE /\ split_pc' = "err"
                 /\ split_result' = r
                 /\ chunk_files' \in
                      {chunk_files} \cup
                      (IF r = "Failed to spawn command" THEN {}
                       ELSE {chunk_files \cup {split_i}})
                 /\ UNCHANGED <<video_chunks, split_i>>

\* download_high_res
max_retries == 3
LastAttemptPassed(n) == n > max_retries
LastAttempt(n) == n >= max_retries
\* head of the loop: the check of the flag, then the call of
\* run_command_with_cancellation
DownloadLoop(flag) ==
  /\ hr_pc = "loop"
  /\ IF flag
     THEN /\ hr_pc' = "ret"
          /\ hr_result' = "Process cancelled by user"
          /\ UNCHANGED commandVars
     ELSE /\ hr_pc' = "command"
          /\ cmd_pc' = "spawn"
          /\ child' = "none"
          /\ cmd_result' = "none"
          /\ called_cancelled' = FALSE
          /\ exited_cancelled' = FALSE
          /\ UNCHANGED hr_result
  /\ UNCHANGED <<attempt, commands>>
\* `match result { .. }`
DownloadMatch ==
  /\ hr_pc = "command"
  /\ cmd_pc = "ret"
  /\ cmd_pc' = "idle"
  /\ IF cmd_result = "success"
     THEN hr_pc' = "ret" /\ hr_result' = "Ok"
     ELSE IF cmd_result = "failure"
     THEN IF LastAttempt(attempt)
          THEN hr_pc' = "ret" /\ hr_result' = "yt-dlp failed after 3 attempts"
          ELSE hr_pc' = "sleep" /\ UNCHANGED hr_result
     ELSE hr_pc' = "ret" /\ hr_result' = cmd_result
  /\ UNCHANGED <<child, cmd_result, called_cancelled, exited_cancelled,
                 attempt, commands>>
\* `tokio::time::sleep(..).await; attempt += 1`
DownloadSleep ==
  /\ hr_pc = "sleep"
  /\ attempt' = attempt + 1
  /\ hr_pc' = "loop"
  /\ UNCHANGED <<commandVars, hr_result, commands>>

\* ------------------------------------------------------- ai/google.rs pool
total_keys == Cardinality(DOMAIN api_keys)

\* GoogleClient::new: every ClientKey is built with enabled = true
NewKeys(values) ==
  [i \in 0..(Len(values) - 1) |->
     [name |-> i, value |-> values[i + 1], enabled |-> TRUE]]

\* the configured key lists: any secrets, equal ones included.  Secrets are
\* numbered in order of first appearance (a renaming of the secrets).
KeyLists ==
  {values \in UNION {[1..n -> Secrets] : n \in 0..MaxKeys} :
     \A i \in 1..Len(values) :
        values[i] = 1 \/ \E j \in 1..(i - 1) : values[j] = values[i] - 1}

PoolInit ==
  /\ \E values \in KeyLists : api_keys = NewKeys(values)
  /\ current_key_index = 0

CallInit ==
  /\ pc = [p \in Procs |-> "idle"]
  /\ start_index = [p \in Procs |-> 0]
  /\ attempts = [p \in Procs |-> 0]
  /\ key_value = [p \in Procs |-> 0]
  /\ result = [p \in Procs |-> None]

HistInit ==
  /\ disabled_done = {}
  /\ seen_disabled = [p \in Procs |-> {}]
  /\ rotations = 0
  /\ flipped = [p \in Procs |-> None]
  /\ calls = 0

\* `self.api_keys.iter().find(|k| k.value == key_value)`
Find(keys, v) ==
  LET hits == {i \in DOMAIN keys : keys[i].value = v}
  IN IF hits = {} THEN None
     ELSE Some(CHOOSE i \in hits : \A j \in hits : i <= j)

\* get_active_key, entry: the is_empty test and the load of the cursor
GetActiveKeyEntry(p) ==
  /\ pc[p] = "idle"
  /\ IF total_keys = 0
     THEN /\ result' = [result EXCEPT ![p] = None]
          /\ pc' = [pc EXCEPT ![p] = "ret"]
          /\ UNCHANGED <<start_index, attempts>>
     ELSE /\ start_index' = [start_index EXCEPT ![p] = current_key_index]
          /\ attempts' = [attempts EXCEPT ![p] = 0]
          /\ pc' = [pc EXCEPT ![p] = "get_loop"]
          /\ UNCHANGED result
  /\ seen_disabled' = [seen_disabled EXCEPT ![p] = disabled_done]
  /\ UNCHANGED <<key_value, poolVars, disabled_done, rotations, flipped>>

\* get_active_key, one iteration of the loop (one load of one enabled flag)
\* the same loop returning the entry without loading its flag
GetActiveKeyLoopNoCheck(p) ==
  /\ pc[p] = "get_loop"
  /\ LET index == (start_index[p] + attempts[p]) % total_keys IN
       /\ result' = [result EXCEPT ![p] = Some(index)]
       /\ pc' = [pc EXCEPT ![p] = "ret"]
       /\ UNCHANGED attempts
  /\ UNCHANGED <<start_index, key_value, poolVars, histVars>>
\* the same loop without `attempts += 1`
GetActiveKeyLoopNoIncrement(p) ==
  /\ pc[p] = "get_loop"
  /\ IF attempts[p] >= total_keys
     THEN /\ result' = [result EXCEPT ![p] = None]
          /\ pc' = [pc EXCEPT ![p] = "ret"]
     ELSE LET index == (start_index[p] + attempts[p]) % total_keys IN
          /\ api_keys[index].enabled
          /\ result' = [result EXCEPT ![p] = Some(index)]
          /\ pc' = [pc EXCEPT ![p] = "ret"]
  /\ UNCHANGED <<start_index, attempts, key_value, poolVars, histVars>>
\* the same loop advancing the cursor when it returns a key
GetActiveKeyLoopRotating(p) ==
  /\ pc[p] = "get_loop"
  /\ IF attempts[p] >= total_keys
     THEN /\ result' = [result EXCEPT ![p] = None]
          /\ pc' = [pc EXCEPT ![p] = "ret"]
          /\ UNCHANGED <<attempts, current_key_index>>
     ELSE LET index == (start_index[p] + attempts[p]) % total_keys IN
          IF api_keys[index].enabled
          THEN /\ result' = [result EXCEPT ![p] = Some(index)]
               /\ pc' = [pc EXCEPT ![p] = "ret"]
               /\ current_key_index' =
                    IF current_key_index < MaxCursor
                    THEN current_key_index + 1 ELSE current_key_index
               /\ UNCHANGED attempts
          ELSE /\ attempts' = [attempts EXCEPT ![p] = attempts[p] + 1]
               /\ UNCHANGED <<result, pc, current_key_index>>
  /\ UNCHANGED <<start_index, key_value, api_keys, histVars>>
GetActiveKeyLoop(p) ==
  /\ pc[p] = "get_loop"
  /\ IF attempts[p] >= total_keys
     THEN /\ result' = [result EXCEPT ![p] = None]
          /\ pc' = [pc EXCEPT ![p] = "ret"]
          /\ UNCHANGED attempts
     ELSE LET index == (start_index[p] + attempts[p]) % total_keys IN
          IF api_keys[index].enabled
          THEN /\ result' = [result EXCEPT ![p] = Some(index)]
               /\ pc' = [pc EXCEPT ![p] = "ret"]
               /\ UNCHANGED attempts
          ELSE /\ attempts' = [attempts EXCEPT ![p] = attempts[p] + 1]
               /\ UNCHANGED <<result, pc>>
  /\ UNCHANGED <<start_index, key_value, poolVars, histVars>>

\* the caller takes the value get_active_key returned
Return(p) ==
  /\ pc[p] = "ret"
  /\ pc' = [pc EXCEPT ![p] = "idle"]
  /\ start_index' = [start_index EXCEPT ![p] = 0]
  /\ attempts' = [attempts EXCEPT ![p] = 0]
  /\ result' = [result EXCEPT ![p] = None]
  /\ seen_disabled' = [seen_disabled EXCEPT ![p] = {}]
  /\ UNCHANGED <<key_value, poolVars, disabled_done, rotations, flipped>>

\* `self.current_key_index.fetch_add(1, Ordering::SeqCst)`
\* the same adding 2
FetchAddTwo ==
  /\ current_key_index < MaxCursor
  /\ current_key_index' = current_key_index + 2
  /\ rotations' = rotations + 1
FetchAdd ==
  /\ current_key_index < MaxCursor
  /\ current_key_index' = current_key_index + 1
  /\ rotations' = rotations + 1

\* rotate_key
RotateKey(p) ==
  /\ pc[p] = "idle"
  /\ FetchAdd
  /\ UNCHANGED <<callVars, api_keys, disabled_done, seen_disabled, flipped>>

\* disable_key: find the entry and store false into its flag
\* the same store into every entry whose value matches
DisableKeyStoreAll(p, v) ==
  /\ pc[p] = "idle"
  /\ key_value' = [key_value EXCEPT ![p] = v]
  /\ api_keys' = [i \in DOMAIN api_keys |->
                    IF api_keys[i].value = v
                    THEN [api_keys[i] EXCEPT !.enabled = FALSE]
                    ELSE api_keys[i]]
  /\ flipped' = [flipped EXCEPT ![p] = Find(api_keys, v)]
  /\ pc' = [pc EXCEPT ![p] = "disable_rotate"]
  /\ UNCHANGED <<start_index, attempts, result, current_key_index,
                 disabled_done, seen_disabled, rotations>>
DisableKeyStore(p, v) ==
  /\ pc[p] = "idle"
  /\ key_value' = [key_value EXCEPT ![p] = v]
  /\ LET hit == Find(api_keys, v) IN
       /\ api_keys' = [i \in DOMAIN api_keys |->
                         IF i \in hit
                         THEN [api_keys[i] EXCEPT !.enabled = FALSE]
                         ELSE api_keys[i]]
       /\ flipped' = [flipped EXCEPT ![p] = hit]
  /\ pc' = [pc EXCEPT ![p] = "disable_rotate"]
  /\ UNCHANGED <<start_index, attempts, result, current_key_index,
                 disabled_done, seen_disabled, rotations>>

\* disable_key: the closing `self.rotate_key()`
DisableKeyRotate(p) ==
  /\ pc[p] = "disable_rotate"
  /\ FetchAdd
  /\ pc' = [pc EXCEPT ![p] = "idle"]
  /\ key_value' = [key_value EXCEPT ![p] = 0]
  /\ disabled_done' = disabled_done \cup flipped[p]
  /\ flipped' = [flipped EXCEPT ![p] = None]
  /\ UNCHANGED <<start_index, attempts, result, api_keys, seen_disabled>>

\* a caller invokes a method of a client: one more call made
Invoke ==
  /\ calls < MaxCalls
  /\ calls' = calls + 1

\* ------------------------------------- ai/google.rs: process_chunk
\* the Results of analyze_video_internal: the moments, or an error whose
\* text is one of the fixed context strings, or "Gemini API error: {message}
\* (Code: {code}, Status: {status})"
AnalyzeOk == [kind |-> "ok", code |-> 0, status |-> "", quota_text |-> FALSE]
AnalyzeErrors ==
  {[kind |-> k, code |-> 0, status |-> "", quota_text |-> FALSE] :
     k \in {"Failed to call Gemini API", "Failed to parse Gemini response",
            "No response from Gemini",
            "Failed to parse structured moments JSON"}}
  \cup [kind : {"Gemini API error"}, code : {429, 500},
        status : {"RESOURCE_EXHAUSTED", "INTERNAL"}, quota_text : BOOLEAN]
NoResult == [kind |-> "none", code |-> 0, status |-> "", quota_text |-> FALSE]
UploadOk == [kind |-> "uploaded", code |-> 0, status |-> "",
             quota_text |-> FALSE]
UploadErr == [kind |-> "upload failed", code |-> 0, status |-> "",
              quota_text |-> FALSE]

\* `err_msg.contains("quota") || err_msg.contains("429") ||
\*  err_msg.contains("RESOURCE_EXHAUSTED")`
IsQuota(e) ==
  /\ e.kind = "Gemini API error"
  /\ e.quota_text \/ e.code = 429 \/ e.status = "RESOURCE_EXHAUSTED"

GInit ==
  /\ g_pc = "idle"
  /\ key_arc = None
  /\ last_result = NoResult
  /\ quota_key = None
  /\ polls = 0
  /\ request_keys = {}

\* the key the requests of an attempt are sent with: upload_video_internal,
\* wait_for_file_active and analyze_video_internal are each handed `&key_arc`
\* and build their URL from its value
\* the key at the cursor, read anew for every request
RequestKeyAtCursor ==
  IF total_keys = 0 THEN None ELSE Some(current_key_index % total_keys)
RequestKey == key_arc

\* analyze_video_internal, `if chunk_start_offset > 0`: every time of the
\* moments and of their dialogue is parsed (0 when that fails), moved by
\* the offset and formatted again
\* the same without the test of the offset
AdjustedTime(time, chunk_start_offset) ==
  format_seconds_to_timestamp(
    unwrap_or(parse_timestamp_to_seconds(time), 0) + chunk_start_offset)
AdjustedDialogue(dialogue, chunk_start_offset) ==
  [k \in 1..Len(dialogue) |->
     [dialogue[k] EXCEPT
        !.start_time = AdjustedTime(@, chunk_start_offset),
        !.end_time = AdjustedTime(@, chunk_start_offset)]]
AdjustTimestampsAlways(moments, chunk_start_offset) ==
  [k \in 1..Len(moments) |->
     [moments[k] EXCEPT
        !.start_time = AdjustedTime(@, chunk_start_offset),
        !.end_time = AdjustedTime(@, chunk_start_offset),
        !.dialogue = AdjustedDialogue(@, chunk_start_offset)]]
AdjustTimestamps(moments, chunk_start_offset) ==
  IF chunk_start_offset > 0
  THEN [k \in 1..Len(moments) |->
          [moments[k] EXCEPT
             !.start_time = AdjustedTime(@, chunk_start_offset),
             !.end_time = AdjustedTime(@, chunk_start_offset),
             !.dialogue = AdjustedDialogue(@, chunk_start_offset)]]
  ELSE moments
\* the adjustment applied to the vector `moments`
AdjustMoments(chunk_start_offset) ==
  /\ analysis_moments' = AdjustTimestamps(analysis_moments, chunk_start_offset)
  /\ adjusted_by' = Append(adjusted_by, chunk_start_offset)
  /\ UNCHANGED analysis_response

\* top of the loop: `self.get_active_key()` is called
ProcessChunkLoop ==
  /\ g_pc = "loop"
  /\ GetActiveKeyEntry(Main)
  /\ g_pc' = "get_active_key"
  /\ UNCHANGED <<key_arc, last_result, quota_key, polls, request_keys, calls,
                 chunk_result>>

\* `.ok_or_else(|| anyhow!("No active API keys available"))?`
ProcessChunkKey ==
  /\ g_pc = "get_active_key"
  /\ Return(Main)
  /\ IF result[Main] = None
     THEN /\ g_pc' = "err"
          /\ chunk_result' = "No active API keys available"
          /\ key_arc' = None
     ELSE /\ g_pc' = "upload"
          /\ key_arc' = result[Main]
          /\ UNCHANGED chunk_result
  /\ request_keys' = {}
  /\ UNCHANGED <<last_result, quota_key, polls, calls>>

\* `match self.upload_video_internal(&key_arc, file_path).await`
\* (the requests of upload_video_internal up to the parsed upload response)
\* the same match disabling the key when the upload fails
ProcessChunkUploadDisabling ==
  /\ g_pc = "upload"
  /\ \E r \in {UploadOk, UploadErr} :
       /\ last_result' = r
       /\ IF r = UploadOk
          THEN /\ g_pc' = "wait"
               /\ UNCHANGED <<poolVars, callVars, histVars, quota_key>>
          ELSE /\ \E i \in key_arc : DisableKeyStore(Main, api_keys[i].value)
               /\ g_pc' = "disable_key"
               /\ quota_key' = None
               /\ UNCHANGED calls
  /\ polls' = 0
  /\ request_keys' = request_keys \cup RequestKey
  /\ UNCHANGED <<key_arc, chunk_result>>
ProcessChunkUpload ==
  /\ g_pc = "upload"
  /\ \E r \in {UploadOk, UploadErr} :
       /\ last_result' = r
       /\ IF r = UploadOk
          THEN /\ g_pc' = "wait"
               /\ UNCHANGED <<poolVars, callVars, histVars, quota_key>>
          ELSE /\ RotateKey(Main)
               /\ g_pc' = "loop"
               /\ quota_key' = None
               /\ UNCHANGED calls
  /\ polls' = 0
  /\ request_keys' = request_keys \cup RequestKey
  /\ UNCHANGED <<key_arc, chunk_result>>

\* what one poll of wait_for_file_active gives: the state of the file, or a
\* request or parse failure
FileStates == {"ACTIVE", "FAILED", "PROCESSING"}
PollResult(kind) == [kind |-> kind, code |-> 0, status |-> "",
                     quota_text |-> FALSE]
PollOutcomes ==
  FileStates \cup {"Failed to check file status", "Failed to parse file status"}

\* one iteration of `for _ in 0..60`: ACTIVE returns Ok (the upload is
\* done), FAILED or a failed request returns Err, which process_chunk
\* answers with rotate_key and `continue`; otherwise sleep and poll again.
\* the same iteration taking FAILED for a state to wait on
WaitForFileActivePollOn ==
  /\ g_pc = "wait"
  /\ polls < PollLimit
  /\ \E o \in PollOutcomes :
       /\ last_result' = PollResult(IF o = "FAILED"
                                    THEN "File processing failed" ELSE o)
       /\ IF o = "ACTIVE"
          THEN /\ g_pc' = "analyze"
               /\ UNCHANGED <<poolVars, callVars, histVars>>
          ELSE IF o \in {"PROCESSING", "FAILED"}
          THEN /\ g_pc' = "wait"
               /\ UNCHANGED <<poolVars, callVars, histVars>>
          ELSE /\ RotateKey(Main)
               /\ g_pc' = "loop"
               /\ UNCHANGED calls
  /\ polls' = IF g_pc' = "wait" THEN polls + 1 ELSE 0
  /\ request_keys' = request_keys \cup RequestKey
  /\ quota_key' = IF g_pc' = "loop" THEN None ELSE quota_key
  /\ UNCHANGED <<key_arc, chunk_result>>
WaitForFileActivePoll ==
  /\ g_pc = "wait"
  /\ polls < PollLimit
  /\ \E o \in PollOutcomes :
       /\ last_result' = PollResult(IF o = "FAILED"
                                    THEN "File processing failed" ELSE o)
       /\ IF o = "ACTIVE"
          THEN /\ g_pc' = "analyze"
               /\ UNCHANGED <<poolVars, callVars, histVars>>
          ELSE IF o = "PROCESSING"
          THEN /\ g_pc' = "wait"
               /\ UNCHANGED <<poolVars, callVars, histVars>>
          ELSE /\ RotateKey(Main)
               /\ g_pc' = "loop"
               /\ UNCHANGED calls
  /\ polls' = IF g_pc' = "wait" THEN polls + 1 ELSE 0
  /\ request_keys' = request_keys \cup RequestKey
  /\ quota_key' = IF g_pc' = "loop" THEN None ELSE quota_key
  /\ UNCHANGED <<key_arc, chunk_result>>

\* `Err(anyhow!("File processing timed out"))` after the 60th poll, answered
\* by process_chunk with rotate_key and `continue`
WaitForFileActiveTimeout ==
  /\ g_pc = "wait"
  /\ polls >= PollLimit
  /\ last_result' = PollResult("File processing timed out")
  /\ RotateKey(Main)
  /\ g_pc' = "loop"
  /\ quota_key' = None
  /\ polls' = 0
  /\ UNCHANGED <<key_arc, request_keys, calls, chunk_result>>

\* `match self.analyze_video_internal(&key_arc, &file_uri, ..).await`
ProcessChunkAnalyze ==
  /\ g_pc = "analyze"
  /\ \E r \in {AnalyzeOk} \cup AnalyzeErrors :
       /\ last_result' = r
       /\ IF r = AnalyzeOk
          THEN /\ RotateKey(Main)
               /\ g_pc' = "ok"
               /\ chunk_result' = "ok"
               /\ quota_key' = None
          ELSE IF IsQuota(r)
          THEN /\ \E i \in key_arc : DisableKeyStore(Main, api_keys[i].value)
               /\ g_pc' = "disable_key"
               /\ quota_key' = key_arc
               /\ UNCHANGED chunk_result
          ELSE /\ RotateKey(Main)
               /\ g_pc' = "loop"
               /\ quota_key' = None
               /\ UNCHANGED chunk_result
  /\ request_keys' = request_keys \cup RequestKey
  /\ UNCHANGED <<key_arc, polls, calls>>

\* the `self.rotate_key()` closing disable_key, then `continue`
ProcessChunkDisabled ==
  /\ g_pc = "disable_key"
  /\ DisableKeyRotate(Main)
  /\ g_pc' = "loop"
  /\ UNCHANGED <<key_arc, last_result, quota_key, polls, request_keys, calls,
                 chunk_result>>

\* ------------------------------------------ ai/openrouter.rs: the pool
or_len == Cardinality(DOMAIN or_api_keys)

\* OpenRouterClient::new
OrNewKeys(values) == [i \in 0..(Len(values) - 1) |-> [key |-> values[i + 1]]]

OrPoolInit ==
  /\ \E values \in KeyLists : or_api_keys = OrNewKeys(values)
  /\ or_current_key_index = 0
  /\ or_pc = [p \in Procs |-> "idle"]
  /\ or_next = [p \in Procs |-> 0]
  /\ or_result = [p \in Procs |-> None]
  /\ or_rotations = 0

\* get_current_key: Err on an empty pool, else the key at the loaded index
\* (index 0, stored back, should the index be out of bounds)
OrGetCurrentKey(p) ==
  /\ or_pc[p] = "idle"
  /\ IF or_len = 0
     THEN /\ or_result' = [or_result EXCEPT ![p] = None]
          /\ UNCHANGED or_current_key_index
     ELSE LET index == or_current_key_index IN
          IF index >= or_len
          THEN /\ or_current_key_index' = 0
               /\ or_result' = [or_result EXCEPT ![p] = Some(0)]
          ELSE /\ or_result' = [or_result EXCEPT ![p] = Some(index)]
               /\ UNCHANGED or_current_key_index
  /\ UNCHANGED <<or_api_keys, or_pc, or_next, or_rotations>>

\* rotate_key: `let next = (current_key_index.load(Relaxed) + 1) % len`
OrRotateKeyLoad(p) ==
  /\ or_pc[p] = "idle"
  /\ IF or_len > 1
     THEN /\ or_next' = [or_next EXCEPT ![p] =
                           (or_current_key_index + 1) % or_len]
          /\ or_pc' = [or_pc EXCEPT ![p] = "rotate_store"]
          /\ UNCHANGED or_rotations
     ELSE /\ or_rotations' = or_rotations + 1
          /\ UNCHANGED <<or_next, or_pc>>
  /\ UNCHANGED <<or_api_keys, or_current_key_index, or_result>>

\* rotate_key: `current_key_index.store(next, Relaxed)`
OrRotateKeyStore(p) ==
  /\ or_pc[p] = "rotate_store"
  /\ or_current_key_index' = or_next[p]
  /\ or_pc' = [or_pc EXCEPT ![p] = "idle"]
  /\ or_next' = [or_next EXCEPT ![p] = 0]
  /\ or_rotations' = or_rotations + 1
  /\ UNCHANGED <<or_api_keys, or_result>>

\* -------------------------------- ai/openrouter.rs: process_chunk
OInit ==
  /\ o_pc = "idle"
  /\ o_attempts = 0
  /\ o_key = None
  /\ o_response = None
  /\ or_quota_keys = {}

\* `self.api_keys.len().max(3)`
\* the same without the floor of 3
max_attempts_of_pool == or_len
max_attempts == IF or_len >= 3 THEN or_len ELSE 3

\* what `.send().await` gives: a transport error, or a response with a
\* status and, on success, a body
OrResponses ==
  {[status |-> 0, body |-> "transport error"]}
  \cup [status : {429, 401, 402, 500}, body : {"error"}]
  \cup [status : {200},
        body : {"not json", "no choices", "no content", "not a moment list",
                "moments"}]

\* `let video_data = fs::read(file_path).await?` and the encoding
OrProcessChunkRead ==
  /\ o_pc = "read"
  /\ \/ o_pc' = "while" /\ o_attempts' = 0 /\ UNCHANGED chunk_result
     \/ o_pc' = "err" /\ chunk_result' = "io error" /\ UNCHANGED o_attempts
  /\ o_response' = None
  /\ UNCHANGED <<orPoolVars, o_key, or_quota_keys>>

\* `while attempts < max_attempts { let key = self.get_current_key()?; ..`
OrProcessChunkWhile ==
  /\ o_pc = "while"
  /\ IF o_attempts < max_attempts
     THEN /\ OrGetCurrentKey(Main)
          /\ o_key' = or_result'[Main]
          /\ IF or_len = 0
             THEN /\ o_pc' = "err"
                  /\ chunk_result' = "No OpenRouter API keys available"
             ELSE /\ o_pc' = "send"
                  /\ UNCHANGED chunk_result
     ELSE /\ o_pc' = "err"
          /\ chunk_result' =
               "Failed to process chunk with OpenRouter after multiple attempts"
          /\ UNCHANGED <<orPoolVars, o_key>>
  /\ UNCHANGED <<o_attempts, o_response, or_quota_keys>>

\* `match response { .. }`
OrProcessChunkResponse ==
  /\ o_pc = "send"
  /\ \E resp \in OrResponses :
       /\ or_quota_keys' = IF resp.status = 429
                           THEN or_quota_keys \cup o_key ELSE or_quota_keys
       /\ o_response' = Some(resp)
       /\ IF resp.status = 200
          THEN /\ IF resp.body = "not json"
                  THEN o_pc' = "err" /\ chunk_result' = "json error"
                  ELSE /\ o_pc' = "ok"
                       /\ chunk_result' = IF resp.body = "moments"
                                          THEN "ok" ELSE "ok, no moments"
               /\ UNCHANGED orPoolVars
          ELSE /\ IF resp.status \in {0, 429, 401, 402}
                  THEN OrRotateKeyLoad(Main)
                  ELSE UNCHANGED orPoolVars
               /\ o_pc' = "attempted"
               /\ UNCHANGED chunk_result
  /\ UNCHANGED <<o_attempts, o_key>>

\* the store that ends rotate_key
OrProcessChunkRotated ==
  /\ o_pc = "attempted"
  /\ OrRotateKeyStore(Main)
  /\ UNCHANGED <<oVars, chunk_result>>

\* `attempts += 1`
OrProcessChunkNext ==
  /\ o_pc = "attempted"
  /\ or_pc[Main] = "idle"
  /\ o_attempts' = o_attempts + 1
  /\ o_pc' = "while"
  /\ o_response' = None
  /\ UNCHANGED <<orPoolVars, o_key, or_quota_keys, chunk_result>>

\* ------------------------------------- types.rs: the session as a text
\* A String is a sequence of characters.  A JSON text is a sequence of
\* tokens: punctuation, field names and string literals (white space and
\* commas are left out); a literal holds the characters between its quotes.
Quote == "\""
Backslash == "\\"
LineFeed == "\n"
Punct(t) == [t |-> t, s |-> <<>>]
Digits == <<"1", "2", "3", "4">>
Field(name) == [t |-> "field", s |-> <<name>>]
Literal(cs) == [t |-> "string", s |-> cs]

\* serde_json writing the contents of a string: the quote, the backslash
\* and the line feed are written as escapes
\* the same writing every character as it is
format_unescaped_str(str) == str
RECURSIVE format_escaped_str(_)
format_escaped_str(str) ==
  IF str = <<>> THEN <<>>
  ELSE LET c == Head(str)
       IN (IF c = Quote THEN <<Backslash, Quote>>
           ELSE IF c = Backslash THEN <<Backslash, Backslash>>
           ELSE IF c = LineFeed THEN <<Backslash, "n">>
           ELSE <<c>>) \o format_escaped_str(Tail(str))

\* the result of a step of the reader: [ok, v, rest], the value read and
\* the text after it
Fail == [ok |-> FALSE, v |-> <<>>, rest |-> <<>>]
Ok(v, rest) == [ok |-> TRUE, v |-> v, rest |-> rest]
\* a step and what follows it when the step has read a value
Then(step, Rest(_)) ==
  CHOOSE out \in {IF r.ok THEN Rest(r) ELSE Fail : r \in {step}} : TRUE

\* serde_json reading the contents of a string literal
RECURSIVE parse_str(_)
parse_str(cs) ==
  IF cs = <<>> THEN Ok(<<>>, <<>>)
  ELSE IF Head(cs) \in {Quote, LineFeed} THEN Fail
  ELSE IF Head(cs) = Backslash
  THEN IF Len(cs) < 2 \/ cs[2] \notin {Quote, Backslash, "n"} THEN Fail
       ELSE Then(parse_str(SubSeq(cs, 3, Len(cs))), LAMBDA r :
              Ok(<<IF cs[2] = "n" THEN LineFeed ELSE cs[2]>> \o r.v, <<>>))
  ELSE Then(parse_str(Tail(cs)), LAMBDA r : Ok(<<Head(cs)>> \o r.v, <<>>))

\* #[derive(Serialize)]: the fields in the order of the struct
StringField(name, str) == <<Field(name), Literal(format_escaped_str(str))>>
SerializeDialoguePhrase(p) ==
  <<Punct("{")>> \o StringField("start_time", p.start_time)
  \o StringField("end_time", p.end_time) \o StringField("phrase", p.phrase)
  \o <<Punct("}")>>
RECURSIVE SerializeDialogue(_)
SerializeDialogue(ps) ==
  IF ps = <<>> THEN <<>>
  ELSE SerializeDialoguePhrase(Head(ps)) \o SerializeDialogue(Tail(ps))
SerializeVideoMoment(m) ==
  <<Punct("{")>> \o StringField("start_time", m.start_time)
  \o StringField("end_time", m.end_time)
  \o StringField("category", m.category)
  \o StringField("description", m.description)
  \o <<Field("dialogue"), Punct("[")>> \o SerializeDialogue(m.dialogue)
  \o <<Punct("]"), Punct("}")>>
RECURSIVE SerializeMoments(_)
SerializeMoments(ms) ==
  IF ms = <<>> THEN <<>>
  ELSE SerializeVideoMoment(Head(ms)) \o SerializeMoments(Tail(ms))
\* serde_json::to_string_pretty(&state) of a SessionState
to_string_pretty(state) ==
  <<Punct("{")>> \o StringField("youtube_url", state.youtube_url)
  \o <<Field("moments"), Punct("[")>> \o SerializeMoments(state.moments)
  \o <<Punct("]")>> \o StringField("temp_dir", state.temp_dir)
  \o <<Punct("}")>>

\* #[derive(Deserialize)], for texts whose fields come in the order of the
\* struct
Expect(toks, tok) ==
  IF toks # <<>> /\ Head(toks) = tok THEN Ok(tok, Tail(toks)) ELSE Fail
ParseStringField(toks, name) ==
  Then(Expect(toks, Field(name)), LAMBDA f :
    IF f.rest # <<>> /\ Head(f.rest).t = "string"
    THEN Then(parse_str(Head(f.rest).s), LAMBDA str : Ok(str.v, Tail(f.rest)))
    ELSE Fail)
DeserializeDialoguePhrase(toks) ==
  Then(Expect(toks, Punct("{")), LAMBDA o :
  Then(ParseStringField(o.rest, "start_time"), LAMBDA a :
  Then(ParseStringField(a.rest, "end_time"), LAMBDA b :
  Then(ParseStringField(b.rest, "phrase"), LAMBDA c :
  Then(Expect(c.rest, Punct("}")), LAMBDA e :
    Ok([start_time |-> a.v, end_time |-> b.v, phrase |-> c.v], e.rest))))))
RECURSIVE DeserializeDialogue(_)
DeserializeDialogue(toks) ==
  IF toks = <<>> THEN Fail
  ELSE IF Head(toks) = Punct("]") THEN Ok(<<>>, Tail(toks))
  ELSE Then(DeserializeDialoguePhrase(toks), LAMBDA p :
       Then(DeserializeDialogue(p.rest), LAMBDA r :
         Ok(<<p.v>> \o r.v, r.rest)))
\* `#[serde(default)] dialogue`: a moment without the field has none
DialogueField(toks) ==
  IF toks # <<>> /\ Head(toks) = Field("dialogue")
  THEN Then(Expect(Tail(toks), Punct("[")), LAMBDA o :
         DeserializeDialogue(o.rest))
  ELSE Ok(<<>>, toks)
DeserializeVideoMoment(toks) ==
  Then(Expect(toks, Punct("{")), LAMBDA o :
  Then(ParseStringField(o.rest, "start_time"), LAMBDA a :
  Then(ParseStringField(a.rest, "end_time"), LAMBDA b :
  Then(ParseStringField(b.rest, "category"), LAMBDA c :
  Then(ParseStringField(c.rest, "description"), LAMBDA e :
  Then(DialogueField(e.rest), LAMBDA g :
  Then(Expect(g.rest, Punct("}")), LAMBDA h :
    Ok([start_time |-> a.v, end_time |-> b.v, category |-> c.v,
        description |-> e.v, dialogue |-> g.v], h.rest))))))))
RECURSIVE DeserializeMoments(_)
DeserializeMoments(toks) ==
  IF toks = <<>> THEN Fail
  ELSE IF Head(toks) = Punct("]") THEN Ok(<<>>, Tail(toks))
  ELSE Then(DeserializeVideoMoment(toks), LAMBDA m :
       Then(DeserializeMoments(m.rest), LAMBDA r :
         Ok(<<m.v>> \o r.v, r.rest)))
\* serde_json::from_str::<SessionState>(&content): nothing may follow the
\* closing brace
from_str(content) ==
  Then(Expect(content, Punct("{")), LAMBDA o :
  Then(ParseStringField(o.rest, "youtube_url"), LAMBDA a :
  Then(Expect(a.rest, Field("moments")), LAMBDA f :
  Then(Expect(f.rest, Punct("[")), LAMBDA g :
  Then(DeserializeMoments(g.rest), LAMBDA b :
  Then(ParseStringField(b.rest, "temp_dir"), LAMBDA c :
    IF c.rest = <<Punct("}")>>
    THEN Ok([youtube_url |-> a.v, moments |-> b.v, temp_dir |-> c.v], <<>>)
    ELSE Fail))))))

\* ------------------------------------------------- main.rs: the session
\* the file temp.json: missing, a file with a text, or a file whose
\* contents cannot be read as a string
Missing == [kind |-> "missing", text |-> <<>>]
File(text) == [kind |-> "file", text |-> text]
Unreadable == [kind |-> "unreadable", text |-> <<>>]

\* `let state = SessionState { youtube_url, moments, temp_dir }`
SessionState(youtube_url, moments, dir) ==
  [youtube_url |-> youtube_url, moments |-> moments, temp_dir |-> dir]

\* save_session returning Ok: the text of the state is the file's contents
SaveSession ==
  /\ save_pc = "call"
  /\ session_file' =
       File(to_string_pretty(SessionState(url, all_moments, temp_dir)))
  /\ save_pc' = "ok"
  /\ json' = <<>>
  /\ saved_before' = session_file
  /\ UNCHANGED <<url, all_moments, temp_dir, session, screen,
                 temp_dir_exists>>

\* save_session step by step.  `fs::write(path, json)` creates the file or
\* truncates the one that is there, then writes the text to it
SaveSessionCreate ==
  /\ save_pc = "call"
  /\ json' = to_string_pretty(SessionState(url, all_moments, temp_dir))
  /\ saved_before' = session_file
  /\ \/ session_file' = File(<<>>) /\ save_pc' = "write"
     \/ UNCHANGED session_file /\ save_pc' = "err"
  /\ UNCHANGED <<url, all_moments, temp_dir, session, screen,
                 temp_dir_exists>>
\* write_all: the next part of the text reaches the file, or the write fails
SaveSessionWrite ==
  /\ save_pc = "write"
  /\ \/ \E n \in (Len(session_file.text) + 1)..Len(json) :
          /\ session_file' = File(SubSeq(json, 1, n))
          /\ save_pc' = IF n = Len(json) THEN "ok" ELSE "write"
     \/ UNCHANGED session_file /\ save_pc' = "err"
  /\ UNCHANGED <<url, all_moments, temp_dir, session, screen, json,
                 saved_before, temp_dir_exists>>
\* the process stops while save_session runs
StopInSave ==
  /\ save_pc \in {"call", "write"}
  /\ save_pc' = "stopped"
  /\ UNCHANGED <<url, all_moments, temp_dir, session_file, session, screen,
                 json, saved_before, temp_dir_exists>>

\* the program ends and is started again
Restart ==
  /\ screen = "Processing"
  /\ save_pc \in {"ok", "err", "stopped"}
  /\ screen' = "MainMenu"
  /\ session' = None
  /\ UNCHANGED <<url, all_moments, temp_dir, session_file, save_pc, json,
                 saved_before, temp_dir_exists>>

\* the load with a file that cannot be read or parsed ending the program
LoadSessionOrFail ==
  /\ screen = "MainMenu"
  /\ IF session_file.kind = "file" /\ from_str(session_file.text).ok
     THEN /\ screen' = "ResumePrompt"
          /\ session' = Some(from_str(session_file.text).v)
     ELSE /\ screen' = IF session_file = Missing THEN "UrlInput" ELSE "exit"
          /\ UNCHANGED session
  /\ UNCHANGED <<url, all_moments, temp_dir, session_file, save_pc, json,
                 saved_before, temp_dir_exists>>
\* run_app leaving the main menu: `if Path::new(..).exists()`,
\* `if let Ok(content) = fs::read_to_string(..)`,
\* `if let Ok(existing_session) = serde_json::from_str(..)`
LoadSession ==
  /\ screen = "MainMenu"
  /\ IF session_file.kind = "file" /\ from_str(session_file.text).ok
     THEN /\ screen' = "ResumePrompt"
          /\ session' = Some(from_str(session_file.text).v)
     ELSE /\ screen' = "UrlInput"
          /\ UNCHANGED session
  /\ UNCHANGED <<url, all_moments, temp_dir, session_file, save_pc, json,
                 saved_before, temp_dir_exists>>
\* AppScreen::ResumePrompt answered with yes
ResumeSession ==
  /\ screen = "ResumePrompt"
  /\ \E s \in session :
       /\ url' = s.youtube_url
       /\ all_moments' = s.moments
       /\ temp_dir' = s.temp_dir
  /\ session' = None
  /\ screen' = "FormatConfirm"
  /\ UNCHANGED <<session_file, save_pc, json, saved_before, temp_dir_exists>>

\* ----------------------------------------------------- main.rs: run_app
\* One pass of the event loop receives the messages that are there
\* (`while let Ok(msg) = rx.try_recv()`), then handles at most one key and
\* the transition of the screen it leads to.  A spawned task is followed
\* as far as the flag goes: "run" while it still reads the flag, "result"
\* once run_processing / run_extraction has returned and Finished is yet to
\* be sent.
NoTask == [kind |-> "none", pc |-> "none"]
Running(t) == tasks[t].pc # "none"
Polling(t) == tasks[t].pc = "run"
FreeTask == CHOOSE t \in 1..MaxTasks : ~Running(t) /\ \A u \in 1..(t - 1) : Running(u)
\* `cancellation_token.store(false, ..)` then `tokio::spawn(..)`
Spawn(kind) ==
  /\ \E t \in 1..MaxTasks : ~Running(t)
  /\ cancellation_token' = FALSE
  /\ tasks' = [tasks EXCEPT ![FreeTask] = [kind |-> kind, pc |-> "run"]]
\* the arm `AppScreen::Processing` of the transitions, reached with the
\* screen the key has left
ProcessingArm(to) ==
  IF to = "Processing" /\ ~processing_started
  THEN processing_started' = TRUE /\ Spawn("processing")
  ELSE UNCHANGED <<processing_started, tasks, cancellation_token>>

\* App::handle_message for the message at the head of the channel
HandleMessage ==
  /\ ui_pc = "drain"
  /\ channel # <<>>
  /\ screen' = IF Head(channel) = "RequestShortsConfirm"
               THEN "ShortsConfirm" ELSE "Done"
  /\ channel' = Tail(channel)
  /\ UNCHANGED <<ui_pc, processing_started, tasks, cancellation_token>>
\* try_recv finds no message
DrainEnd ==
  /\ ui_pc = "drain"
  /\ channel = <<>>
  /\ ui_pc' = "key"
  /\ UNCHANGED <<screen, channel, processing_started, tasks,
                 cancellation_token>>
\* no key within the poll timeout, or a key the screen ignores
NoKey ==
  /\ ui_pc = "key"
  /\ ui_pc' = "drain"
  /\ ProcessingArm(screen)
  /\ UNCHANGED <<screen, channel>>
\* Esc on a prompt, or q / Esc / Enter on Done: back to the main menu
KeyToMainMenu ==
  /\ ui_pc = "key"
  /\ screen \in {"UrlInput", "ResumePrompt", "FormatConfirm", "ShortsConfirm",
                 "Done"}
  /\ ui_pc' = "drain"
  /\ screen' = "MainMenu"
  /\ UNCHANGED <<channel, processing_started, tasks, cancellation_token>>
\* a valid url entered: `all_moments.clear()`
KeyUrl ==
  /\ ui_pc = "key"
  /\ screen = "UrlInput"
  /\ ui_pc' = "drain"
  /\ screen' = "FormatConfirm"
  /\ UNCHANGED <<channel, processing_started, tasks, cancellation_token>>
\* ResumePrompt answered with no: the session is removed
KeyDiscardSession ==
  /\ ui_pc = "key"
  /\ screen = "ResumePrompt"
  /\ ui_pc' = "drain"
  /\ screen' = "UrlInput"
  /\ UNCHANGED <<channel, processing_started, tasks, cancellation_token>>
\* FormatConfirm answered
KeyFormat ==
  /\ ui_pc = "key"
  /\ screen = "FormatConfirm"
  /\ ui_pc' = "drain"
  /\ screen' = "Processing"
  /\ processing_started' = FALSE
  /\ UNCHANGED <<channel, tasks, cancellation_token>>
\* q or Esc on Processing
KeyCancel ==
  /\ ui_pc = "key"
  /\ screen = "Processing"
  /\ ui_pc' = "drain"
  /\ screen' = "ProcessingCancelConfirm"
  /\ UNCHANGED <<channel, processing_started, tasks, cancellation_token>>
\* ProcessingCancelConfirm answered: yes stores true in the flag; both
\* answers go back to Processing, whose arm of the transitions follows
KeyCancelConfirm ==
  /\ ui_pc = "key"
  /\ screen = "ProcessingCancelConfirm"
  /\ ui_pc' = "drain"
  /\ screen' = "Processing"
  /\ \E yes \in BOOLEAN :
       IF ~processing_started
       THEN ProcessingArm("Processing")
       ELSE /\ cancellation_token' = (yes \/ cancellation_token)
            /\ UNCHANGED <<processing_started, tasks>>
  /\ UNCHANGED channel
\* ShortsConfirm answered: yes starts the extraction task
KeyShorts ==
  /\ ui_pc = "key"
  /\ screen = "ShortsConfirm"
  /\ ui_pc' = "drain"
  /\ \/ screen' = "Processing" /\ Spawn("extraction")
     \/ screen' = "Done" /\ UNCHANGED <<tasks, cancellation_token>>
  /\ UNCHANGED <<channel, processing_started>>

\* a task reads the flag at the head of its loop and finds it set
TaskCancelled(t) ==
  /\ Polling(t)
  /\ cancellation_token
  /\ tasks' = [tasks EXCEPT ![t].pc = "result"]
  /\ UNCHANGED <<screen, ui_pc, channel, processing_started,
                 cancellation_token>>
\* run_processing / run_extraction returns; run_processing with moments
\* and no automatic extraction has sent RequestShortsConfirm
TaskReturns(t) ==
  /\ Polling(t)
  /\ tasks' = [tasks EXCEPT ![t].pc = "result"]
  /\ \/ tasks[t].kind = "processing"
        /\ channel' = Append(channel, "RequestShortsConfirm")
     \/ UNCHANGED channel
  /\ UNCHANGED <<screen, ui_pc, processing_started, cancellation_token>>
\* `let _ = tx_clone.send(AppMessage::Finished)`: the task ends
TaskFinished(t) ==
  /\ tasks[t].pc = "result"
  /\ channel' = Append(channel, "Finished")
  /\ tasks' = [tasks EXCEPT ![t] = NoTask]
  /\ UNCHANGED <<screen, ui_pc, processing_started, cancellation_token>>

\* ------------------------------------------------ main.rs: run_processing
\* the source durations of the runs
Durations == {1200, 4000, 5000}

\* `return Ok((Vec::new(), None))` of the cancellation check: the moments
\* of the value returned
CancelledValue == <<>>
\* `save_session(&temp_json_path, &url, &all_moments, &temp_dir)` in the
\* Ok arm, returning Ok: the file it leaves
PersistedNot(moments) == session_file
Persisted(moments) == File(to_string_pretty(SessionState(url, moments, temp_dir)))
\* the moments a provider reports for a chunk carry times within the
\* chunk: moment j of the response for chunk c
Moment(c, j) ==
  [start_time |-> format_seconds_to_timestamp(60 * j + c),
   end_time |-> format_seconds_to_timestamp(60 * j + c + 30),
   category |-> <<"n">>, description |-> <<>>, dialogue |-> <<>>]
Found(c, n) == [j \in 1..n |-> Moment(c, j)]
\* the chunk a moment of the list lies in, by its start time
ChunkOf(m) ==
  CHOOSE c \in 1..Len(chunks) :
    /\ chunks[c][1] <= unwrap_or(parse_timestamp_to_seconds(m.start_time), 0)
    /\ unwrap_or(parse_timestamp_to_seconds(m.start_time), 0)
         < chunks[c][1] + chunks[c][2]
\* `Ok(moments)` of process_chunk for chunk c (from 1): GoogleClient
\* adjusts the times of the response by the start of the chunk;
\* OpenRouterClient adds the start to the numbers of the response and
\* formats them with `{:.2}`, without dialogue
RawSeconds(time) == unwrap_or(parse_timestamp_to_seconds(time), 0)
OrFormatted(seconds) == Decimal(seconds) \o <<".", "0", "0">>
OrMoments(raw_moments, chunk_start_offset) ==
  [k \in 1..Len(raw_moments) |->
     [start_time |->
        OrFormatted(RawSeconds(raw_moments[k].start_time) + chunk_start_offset),
      end_time |->
        OrFormatted(RawSeconds(raw_moments[k].end_time) + chunk_start_offset),
      category |-> raw_moments[k].category,
      description |-> raw_moments[k].description,
      dialogue |-> <<>>]]
ReturnedUnadjusted(c) == provider_moments[c]
Returned(c) ==
  IF active_provider = "Google"
  THEN AdjustTimestamps(provider_moments[c], chunks[c][1])
  ELSE OrMoments(provider_moments[c], chunks[c][1])
\* `all_moments.extend(moments)` for the chunks cs one after the other
RECURSIVE Extended(_, _)
Extended(moments, cs) ==
  IF cs = <<>> THEN moments
  ELSE Extended(moments \o Returned(Head(cs) + 1), Tail(cs))

\* run_processing called and nothing returned yet
LoopLocals ==
  /\ chunk_i = 0
  /\ chunks_analyzed = 0
  /\ cancellation_token = FALSE
  /\ chunk_result = "none"
  /\ returned = None
  /\ completed = <<>>
  /\ cancelled_polling = None
  /\ run_result = "none"
  /\ shorts_dir = None
  /\ clip_i = 0
  /\ fallback_downloads = 0
  /\ exhausted = FALSE
LoopInit ==
  /\ d_pc = "for"
  /\ LoopLocals

\* the event loop while the one task spawned is followed step by step
AppIdle ==
  /\ ui_pc = "drain"
  /\ processing_started = TRUE
  /\ channel = <<>>
  /\ tasks = [t \in 1..MaxTasks |-> NoTask]

\* the run of a new url: `all_moments.clear()`, and the state after
\* `save_session(..)?` at the head of run_processing
SourceUrl == <<"u">>
TempDir == <<"t">>
NewRun ==
  /\ url = SourceUrl
  /\ temp_dir = TempDir
  /\ all_moments = <<>>
  /\ session_file = File(to_string_pretty(SessionState(url, all_moments, temp_dir)))
  /\ save_pc = "idle"
  /\ session = None
  /\ screen = "Processing"
  /\ json = <<>>
  /\ saved_before = Missing
  /\ temp_dir_exists = TRUE
  /\ existing = <<>>
DInit ==
  /\ LoopInit /\ NewRun /\ AppIdle
  /\ provider_moments = [c \in 1..Len(chunks) |-> Found(c, 1)]

\* the planner has run and split_video has made one file per planned chunk
PlannedInit ==
  /\ total_duration_seconds \in Durations
  /\ chunks = calculate_chunks(total_duration_seconds)
  /\ planner_pc = "ret"
  /\ AdjustIdle

\* tui.rs: the user cancels while the task runs
Cancel ==
  /\ run_result = "none"
  /\ ~cancellation_token
  /\ cancellation_token' = TRUE
  /\ cancelled_polling' =
       IF d_pc = "process_chunk" /\ g_pc = "wait" THEN Some(chunk_i) ELSE None
  /\ UNCHANGED <<d_pc, chunk_i, chunks_analyzed, active_provider,
                 chunk_result, sessionVars, returned, provider_moments,
                 existing, completed, endVars, appVars>>

\* head of `for (i, chunk) in video_chunks.iter().enumerate()`: the
\* cancellation check, then the call of ai_client.process_chunk
DispatchChunk ==
  /\ d_pc = "for"
  /\ IF chunk_i >= Len(chunks)
     THEN d_pc' = "after loop" /\ UNCHANGED <<g_pc, o_pc>>
     ELSE IF cancellation_token
     THEN d_pc' = "cancelled" /\ UNCHANGED <<g_pc, o_pc>>
     ELSE /\ d_pc' = "process_chunk"
          /\ IF active_provider = "Google"
             THEN g_pc' = "loop" /\ UNCHANGED o_pc
             ELSE o_pc' = "read" /\ UNCHANGED g_pc
  /\ returned' = IF d_pc' = "cancelled" THEN Some(CancelledValue) ELSE returned
  /\ run_result' = IF d_pc' = "cancelled" THEN "Ok" ELSE run_result
  /\ UNCHANGED <<chunk_i, chunks_analyzed, cancellation_token,
                 active_provider, chunk_result, sessionVars,
                 provider_moments, existing, completed, cancelled_polling,
                 shorts_dir, clip_i, fallback_downloads, exhausted, appVars>>

\* `match ai_client.process_chunk(..).await { Ok(moments) => .., Err(e) => ..`
DispatchResult ==
  /\ d_pc = "process_chunk"
  /\ \/ g_pc \in {"ok", "err"} /\ g_pc' = "idle" /\ UNCHANGED o_pc
     \/ o_pc \in {"ok", "err"} /\ o_pc' = "idle" /\ UNCHANGED g_pc
  /\ IF chunk_result \in {"ok", "ok, no moments"}
     THEN /\ chunks_analyzed' = chunks_analyzed + 1
          /\ all_moments' = all_moments \o (IF chunk_result = "ok"
                                            THEN Returned(chunk_i + 1)
                                            ELSE <<>>)
          /\ completed' = Append(completed, chunk_i)
          /\ \/ /\ session_file' = Persisted(all_moments')
                /\ chunk_i' = chunk_i + 1
                /\ d_pc' = "for"
             \/ /\ session_file' \in {session_file, File(<<>>)}
                /\ d_pc' = "failed"
                /\ UNCHANGED chunk_i
     ELSE IF chunk_result \in {"No active API keys available",
                               "API Keys Exhausted"}
     THEN /\ d_pc' = "after loop"
          /\ UNCHANGED <<chunk_i, chunks_analyzed, all_moments, completed,
                         session_file>>
     ELSE /\ chunk_i' = chunk_i + 1
          /\ d_pc' = "for"
          /\ UNCHANGED <<chunks_analyzed, all_moments, completed,
                         session_file>>
  /\ chunk_result' = "none"
  /\ run_result' = IF d_pc' = "failed" THEN "Err" ELSE run_result
  /\ exhausted' = (chunk_result \in {"No active API keys available",
                                     "API Keys Exhausted"})
  /\ UNCHANGED <<cancellation_token, active_provider, url, temp_dir, save_pc,
                 session, screen, json, saved_before, temp_dir_exists,
                 returned, provider_moments, existing, cancelled_polling,
                 shorts_dir, clip_i, fallback_downloads, appVars>>

\* what the steps before and after the loop leave alone
EndFrame ==
  UNCHANGED <<chunk_i, chunks_analyzed, cancellation_token, active_provider,
              chunk_result, url, all_moments, temp_dir, save_pc, session,
              screen, json, saved_before, provider_moments, existing,
              completed, cancelled_polling, exhausted, ui_pc,
              processing_started, tasks>>
\* `return Ok((moments, dir))` and the return of an error through `?`
ReturnOk(at, moments, dir) ==
  /\ d_pc' = at
  /\ run_result' = "Ok"
  /\ returned' = Some(moments)
  /\ shorts_dir' = dir
ReturnErr ==
  /\ d_pc' = "failed"
  /\ run_result' = "Err"
  /\ UNCHANGED <<returned, shorts_dir>>
\* the directories of the values returned
DefaultOutputDir == "default_output_dir"
ShortsDir == "shorts_dir"

\* `let ai_client = match config.active_provider { .. }`: the client holds
\* the enabled keys of the configuration; without one the run returns
enabled_keys == IF active_provider = "Google" THEN total_keys ELSE or_len
InitClient ==
  /\ d_pc = "ai_client"
  /\ IF enabled_keys = 0
     THEN ReturnOk("no keys", <<>>, None)
     ELSE d_pc' = "for" /\ UNCHANGED <<returned, run_result, shorts_dir>>
  /\ UNCHANGED <<session_file, temp_dir_exists, clip_i, fallback_downloads,
                 channel>>
  /\ EndFrame

\* after the loop: `if all_moments.is_empty() && chunks_analyzed <
\* video_chunks.len()` the fallback starts download_high_res; otherwise
\* `save_session(..)?` saves the final moments
AfterLoop ==
  /\ d_pc = "after loop"
  /\ IF all_moments = <<>> /\ chunks_analyzed < Len(chunks)
     THEN /\ d_pc' = "download_high_res"
          /\ fallback_downloads' = fallback_downloads + 1
          /\ UNCHANGED <<session_file, returned, run_result, shorts_dir>>
     ELSE /\ \/ /\ session_file' = Persisted(all_moments)
                /\ d_pc' = "moments.txt"
                /\ UNCHANGED <<returned, run_result, shorts_dir>>
             \/ /\ session_file' \in {session_file, File(<<>>)}
                /\ ReturnErr
          /\ UNCHANGED fallback_downloads
  /\ UNCHANGED <<temp_dir_exists, clip_i, channel>>
  /\ EndFrame
\* the fallback: `video::download_high_res(..).await?`, the Complete
\* message and `return Ok((Vec::new(), Some(config.default_output_dir)))`
FallbackDownload ==
  /\ d_pc = "download_high_res"
  /\ \/ ReturnOk("fallback done", <<>>, Some(DefaultOutputDir))
     \/ ReturnErr
  /\ UNCHANGED <<session_file, temp_dir_exists, clip_i, fallback_downloads,
                 channel>>
  /\ EndFrame
\* `fs::write(&moments_txt, &txt_content)?`, then the return without
\* moments (the directory and temp.json removed), the return after
\* RequestShortsConfirm, or the call of run_extraction
WriteMoments ==
  /\ d_pc = "moments.txt"
  /\ \/ /\ ReturnErr
        /\ UNCHANGED <<session_file, temp_dir_exists, channel>>
     \/ /\ all_moments = <<>>
        /\ temp_dir_exists' = FALSE
        /\ session_file' = Missing
        /\ ReturnOk("no moments", all_moments, None)
        /\ UNCHANGED channel
     \/ /\ all_moments # <<>>
        /\ \E generate_shorts \in BOOLEAN :
             IF ~generate_shorts
             THEN /\ channel' = Append(channel, "RequestShortsConfirm")
                  /\ ReturnOk("shorts confirm", all_moments, None)
             ELSE /\ d_pc' = "run_extraction"
                  /\ UNCHANGED <<channel, returned, run_result, shorts_dir>>
        /\ UNCHANGED <<session_file, temp_dir_exists>>
  /\ UNCHANGED <<clip_i, fallback_downloads>>
  /\ EndFrame

\* run_extraction up to its loop: download_high_res unless the file is
\* there, `fs::create_dir_all(&shorts_dir)?`
ExtractionStart ==
  /\ d_pc = "run_extraction"
  /\ \/ d_pc' = "clips" /\ UNCHANGED <<returned, run_result, shorts_dir>>
     \/ ReturnErr
  /\ clip_i' = 0
  /\ UNCHANGED <<session_file, temp_dir_exists, fallback_downloads, channel>>
  /\ EndFrame
\* `for (i, moment) in all_moments.iter().enumerate()`: the cancellation
\* check and extract_clip, whose error is only logged; after the loop
\* cleanup_temp_dir and `fs::remove_file(&temp_json_path).ok()`
ExtractClip ==
  /\ d_pc = "clips"
  /\ IF clip_i >= Len(all_moments)
     THEN /\ temp_dir_exists' = FALSE
          /\ session_file' = Missing
          /\ ReturnOk("extracted", all_moments, Some(ShortsDir))
          /\ UNCHANGED clip_i
     ELSE IF cancellation_token
     THEN /\ ReturnOk("extraction cancelled", all_moments, Some(ShortsDir))
          /\ UNCHANGED <<session_file, temp_dir_exists, clip_i>>
     ELSE /\ clip_i' = clip_i + 1
          /\ UNCHANGED <<d_pc, session_file, temp_dir_exists, returned,
                         run_result, shorts_dir>>
  /\ UNCHANGED <<fallback_downloads, channel>>
  /\ EndFrame

\* ---------------------------------------------------------- specifications
NoGoogle ==
  /\ api_keys = NewKeys(<<>>) /\ current_key_index = 0
  /\ CallInit /\ HistInit /\ GInit
NoOpenRouter ==
  /\ OrPoolInit /\ or_api_keys = OrNewKeys(<<>>)
  /\ OInit

\* the planner applied to every duration up to MaxDuration
InitChunks ==
  /\ PlannerInit
  /\ NoGoogle /\ NoOpenRouter
  /\ DInit /\ active_provider = "Google"
NextChunks ==
  CalculateChunks /\ UNCHANGED <<googleVars, dVars, openRouterVars>>
SpecChunks == InitChunks /\ [][NextChunks]_vars

\* NumProcs callers invoking the three methods of one GoogleClient, every
\* atomic operation a step of its own
InitPool ==
  /\ PlannerIdle
  /\ PoolInit /\ CallInit /\ HistInit /\ GInit
  /\ NoOpenRouter
  /\ DInit /\ active_provider = "Google"
PoolFrame == UNCHANGED <<plannerVars, gVars, dVars, openRouterVars>>
NextPool ==
  \E p \in Procs :
    \/ Invoke /\ GetActiveKeyEntry(p) /\ PoolFrame
    \/ Invoke /\ RotateKey(p) /\ PoolFrame
    \/ Invoke /\ (\E v \in Secrets : DisableKeyStore(p, v)) /\ PoolFrame
    \/ GetActiveKeyLoop(p) /\ UNCHANGED calls /\ PoolFrame
    \/ Return(p) /\ UNCHANGED calls /\ PoolFrame
    \/ DisableKeyRotate(p) /\ UNCHANGED calls /\ PoolFrame
SpecPool == InitPool /\ [][NextPool]_vars

\* NumProcs callers invoking the two methods of one OpenRouterClient
InitOrPool ==
  /\ PlannerIdle
  /\ NoGoogle
  /\ OrPoolInit /\ OInit
  /\ DInit /\ active_provider = "OpenRouter"
OrPoolFrame ==
  UNCHANGED <<plannerVars, poolVars, callVars, disabled_done, seen_disabled,
              rotations, flipped, gVars, dVars, oVars>>
NextOrPool ==
  \E p \in Procs :
    \/ Invoke /\ OrGetCurrentKey(p) /\ OrPoolFrame
    \/ Invoke /\ OrRotateKeyLoad(p) /\ OrPoolFrame
    \/ OrRotateKeyStore(p) /\ UNCHANGED calls /\ OrPoolFrame
SpecOrPool == InitOrPool /\ [][NextOrPool]_vars

\* run_processing: the chunks one after the other, each through the
\* process_chunk of the active provider's client
DispatchFrame ==
  UNCHANGED <<plannerVars, poolVars, callVars, histVars, key_arc, last_result,
              quota_key, polls, request_keys, orPoolVars, o_attempts, o_key,
              o_response, or_quota_keys>>
GoogleFrame ==
  UNCHANGED <<plannerVars, loopVars, sessionVars, runVars, appVars,
              openRouterVars>>
OpenRouterFrame ==
  UNCHANGED <<plannerVars, googleVars, loopVars, sessionVars, runVars,
              appVars>>

InitGoogle ==
  /\ PlannedInit
  /\ PoolInit /\ total_keys > 0
  /\ CallInit /\ HistInit /\ GInit
  /\ NoOpenRouter
  /\ DInit /\ active_provider = "Google"
NextGoogle ==
  \/ DispatchChunk /\ DispatchFrame
  \/ DispatchResult /\ DispatchFrame
  \/ Cancel /\ UNCHANGED <<plannerVars, googleVars, openRouterVars>>
  \/ ProcessChunkLoop /\ GoogleFrame
  \/ GetActiveKeyLoop(Main) /\ UNCHANGED <<gVars, chunk_result>> /\ GoogleFrame
  \/ ProcessChunkKey /\ GoogleFrame
  \/ ProcessChunkUpload /\ GoogleFrame
  \/ WaitForFileActivePoll /\ GoogleFrame
  \/ WaitForFileActiveTimeout /\ GoogleFrame
  \/ ProcessChunkAnalyze /\ GoogleFrame
  \/ ProcessChunkDisabled /\ GoogleFrame
SpecGoogle == InitGoogle /\ [][NextGoogle]_vars

\* run_processing with one key, the provider finding up to MaxFound
\* moments in a chunk; the run is that of a new url, or resumes a session
\* an earlier run has saved after some of the chunks
InitRun ==
  /\ PlannedInit
  /\ PoolInit /\ total_keys <= 1
  /\ CallInit /\ HistInit /\ GInit
  /\ NoOpenRouter
  /\ d_pc = "ai_client" /\ LoopLocals /\ active_provider = "Google"
  /\ AppIdle
  /\ \E n \in [1..Len(chunks) -> 0..MaxFound] :
       provider_moments = [c \in 1..Len(chunks) |-> Found(c, n[c])]
  /\ \E r \in 0..Len(chunks) :
       existing = Extended(<<>>, [c \in 1..r |-> c - 1])
  /\ url = SourceUrl
  /\ temp_dir = TempDir
  /\ all_moments = existing
  /\ session_file = File(to_string_pretty(SessionState(url, all_moments, temp_dir)))
  /\ save_pc = "idle"
  /\ session = None
  /\ screen = "Processing"
  /\ json = <<>>
  /\ saved_before = Missing
  /\ temp_dir_exists = TRUE
EndGoogleFrame == UNCHANGED <<plannerVars, googleVars, openRouterVars>>
NextRun ==
  \/ NextGoogle
  \/ InitClient /\ EndGoogleFrame
  \/ AfterLoop /\ EndGoogleFrame
  \/ FallbackDownload /\ EndGoogleFrame
  \/ WriteMoments /\ EndGoogleFrame
  \/ ExtractionStart /\ EndGoogleFrame
  \/ ExtractClip /\ EndGoogleFrame
SpecRun == InitRun /\ [][NextRun]_vars

\* one process_chunk call of the task on a pool of distinct secrets, the
\* other callers rotating the cursor and disabling keys of the same
\* GoogleClient meanwhile
Others == Procs \ {Main}
InitAttempt ==
  /\ PlannerIdle
  /\ PoolInit /\ total_keys > 0
  /\ \A i, j \in DOMAIN api_keys :
        api_keys[i].value = api_keys[j].value => i = j
  /\ CallInit /\ HistInit
  /\ g_pc = "loop" /\ key_arc = None /\ last_result = NoResult
  /\ quota_key = None /\ polls = 0 /\ request_keys = {}
  /\ NoOpenRouter
  /\ DInit /\ active_provider = "Google"
OthersFrame ==
  UNCHANGED <<plannerVars, gVars, dVars, openRouterVars>>
\* a call made by one of the other callers while the attempt runs
Interfere ==
  /\ calls < MaxInterference
  /\ calls' = calls + 1
NextAttempt ==
  \/ \E p \in Others : Interfere /\ RotateKey(p) /\ OthersFrame
  \/ \E p \in Others : \E v \in Secrets :
        Interfere /\ DisableKeyStore(p, v) /\ OthersFrame
  \/ \E p \in Others : DisableKeyRotate(p) /\ UNCHANGED calls /\ OthersFrame
  \/ ProcessChunkLoop /\ GoogleFrame
  \/ GetActiveKeyLoop(Main) /\ UNCHANGED <<gVars, chunk_result>> /\ GoogleFrame
  \/ ProcessChunkKey /\ GoogleFrame
  \/ ProcessChunkUpload /\ GoogleFrame
  \/ WaitForFileActivePoll /\ GoogleFrame
  \/ WaitForFileActiveTimeout /\ GoogleFrame
  \/ ProcessChunkAnalyze /\ GoogleFrame
  \/ ProcessChunkDisabled /\ GoogleFrame
SpecAttempt == InitAttempt /\ [][NextAttempt]_vars

\* save_session and the load of run_app applied to sessions whose strings
\* hold the characters serde_json escapes
Alphabet == {"n", Quote, Backslash, LineFeed}
StringsUpTo(n) == UNION {[1..k -> Alphabet] : k \in 0..n}
\* a phrase and a moment, their fields all different; p, m number them
SamplePhrase(s1, s2, p) ==
  [start_time |-> s1, end_time |-> s2, phrase |-> s1 \o <<Digits[p]>> \o s2]
SampleMoment(s1, s2, m, phrases) ==
  [start_time |-> s2, end_time |-> s1,
   category |-> <<Digits[m]>> \o s1, description |-> s2 \o s1,
   dialogue |-> [p \in 1..phrases |-> SamplePhrase(s1, s2, p)]]
SampleSessions(n) ==
  {SessionState(s1 \o <<"u">>,
                [m \in 1..moments |-> SampleMoment(s1, s2, m, phrases)],
                s2 \o <<"t">>) :
     s1 \in StringsUpTo(n), s2 \in StringsUpTo(1),
     moments \in 0..MaxMoments, phrases \in 0..MaxPhrases}
SessionIdle ==
  /\ PlannerIdle
  /\ NoGoogle /\ NoOpenRouter
  /\ LoopInit /\ active_provider = "Google"
  /\ AppIdle
  /\ provider_moments = <<>> /\ existing = <<>>
InitRoundTrip ==
  /\ SessionIdle
  /\ \E s \in SampleSessions(MaxLen) :
       /\ url = s.youtube_url
       /\ all_moments = s.moments
       /\ temp_dir = s.temp_dir
  /\ session_file = Missing
  /\ save_pc = "call"
  /\ session = None
  /\ screen = "Processing"
  /\ json = <<>>
  /\ saved_before = Missing
  /\ temp_dir_exists = TRUE
SessionFrame ==
  UNCHANGED <<plannerVars, googleVars, loopVars, chunk_result, runVars,
              appVars, openRouterVars>>
NextRoundTrip ==
  \/ SaveSession /\ SessionFrame
  \/ Restart /\ SessionFrame
  \/ LoadSession /\ SessionFrame
  \/ ResumeSession /\ SessionFrame
SpecRoundTrip == InitRoundTrip /\ [][NextRoundTrip]_vars

\* save_session step by step over the file an earlier run has left, the
\* process stopping at any step, then the program started again
PreviousFiles ==
  LET saved == to_string_pretty(SessionState(url, <<>>, temp_dir))
  IN {Missing, Unreadable, File(saved), File(saved \o <<Punct("}")>>)}
InitSession ==
  /\ SessionIdle
  /\ \E s \in SampleSessions(0) :
       /\ url = s.youtube_url
       /\ all_moments = s.moments
       /\ temp_dir = s.temp_dir
  /\ session_file \in PreviousFiles
  /\ save_pc = "call"
  /\ session = None
  /\ screen = "Processing"
  /\ json = <<>>
  /\ saved_before = session_file
  /\ temp_dir_exists = TRUE
NextSession ==
  \/ SaveSessionCreate /\ SessionFrame
  \/ SaveSessionWrite /\ SessionFrame
  \/ StopInSave /\ SessionFrame
  \/ Restart /\ SessionFrame
  \/ LoadSession /\ SessionFrame
  \/ ResumeSession /\ SessionFrame
SpecSession == InitSession /\ [][NextSession]_vars

\* run_app from the main menu on: the event loop, the keys and the tasks
\* it spawns
InitApp ==
  /\ PlannerIdle
  /\ NoGoogle /\ NoOpenRouter
  /\ LoopInit /\ active_provider = "Google"
  /\ provider_moments = <<>> /\ existing = <<>>
  /\ ui_pc = "drain"
  /\ processing_started = FALSE
  /\ channel = <<>>
  /\ tasks = [t \in 1..MaxTasks |-> NoTask]
  /\ url = SourceUrl
  /\ temp_dir = TempDir
  /\ all_moments \in {<<>>, Found(1, 1)}
  /\ session_file \in
       {Missing, File(to_string_pretty(SessionState(url, all_moments, temp_dir)))}
  /\ save_pc = "ok"
  /\ session = None
  /\ screen = "MainMenu"
  /\ json = <<>>
  /\ saved_before = Missing
  /\ temp_dir_exists = (session_file # Missing)
AppFrame ==
  UNCHANGED <<plannerVars, googleVars, d_pc, chunk_i, chunks_analyzed,
              active_provider, chunk_result, runVars, openRouterVars>>
UiFrame ==
  UNCHANGED <<url, all_moments, temp_dir, session_file, save_pc, session,
              json, saved_before, temp_dir_exists>>
StartFrame ==
  UNCHANGED <<cancellation_token, processing_started, channel, tasks>>
NextApp ==
  \/ HandleMessage /\ UiFrame /\ AppFrame
  \/ DrainEnd /\ UiFrame /\ AppFrame
  \/ NoKey /\ UiFrame /\ AppFrame
  \/ KeyToMainMenu /\ UiFrame /\ AppFrame
  \/ ui_pc = "key" /\ ui_pc' = "drain" /\ LoadSession /\ StartFrame /\ AppFrame
  \/ ui_pc = "key" /\ ui_pc' = "drain" /\ ResumeSession /\ StartFrame /\ AppFrame
  \/ KeyDiscardSession /\ session_file' = Missing /\ session' = None
       /\ temp_dir_exists' = FALSE
       /\ UNCHANGED <<url, all_moments, temp_dir, save_pc, json, saved_before>>
       /\ AppFrame
  \/ KeyUrl /\ all_moments' = <<>> /\ temp_dir_exists' = TRUE
       /\ UNCHANGED <<url, temp_dir, session_file, save_pc, session, json,
                      saved_before>>
       /\ AppFrame
  \/ KeyFormat /\ UiFrame /\ AppFrame
  \/ KeyCancel /\ UiFrame /\ AppFrame
  \/ KeyCancelConfirm /\ UiFrame /\ AppFrame
  \/ KeyShorts /\ UiFrame /\ AppFrame
  \/ \E t \in 1..MaxTasks : TaskCancelled(t) /\ UiFrame /\ AppFrame
  \/ \E t \in 1..MaxTasks : TaskReturns(t) /\ UiFrame /\ AppFrame
  \/ \E t \in 1..MaxTasks : TaskFinished(t) /\ UiFrame /\ AppFrame
SpecApp == InitApp /\ [][NextApp]_vars

\* (the client never compares the values of its keys: pools of 1 to
\* MaxKeys keys of one value)
InitOpenRouter ==
  /\ PlannedInit
  /\ NoGoogle
  /\ OrPoolInit /\ or_len > 0 /\ OInit
  /\ \A i \in DOMAIN or_api_keys : or_api_keys[i].key = 1
  /\ DInit /\ active_provider = "OpenRouter"
NextOpenRouter ==
  \/ DispatchChunk /\ DispatchFrame
  \/ DispatchResult /\ DispatchFrame
  \/ Cancel /\ UNCHANGED <<plannerVars, googleVars, openRouterVars>>
  \/ OrProcessChunkRead /\ OpenRouterFrame
  \/ OrProcessChunkWhile /\ OpenRouterFrame
  \/ OrProcessChunkResponse /\ OpenRouterFrame
  \/ OrProcessChunkRotated /\ OpenRouterFrame
  \/ OrProcessChunkNext /\ OpenRouterFrame
SpecOpenRouter == InitOpenRouter /\ [][NextOpenRouter]_vars

\* the adjustment of the times of a parsed response by up to MaxAdjust
\* offsets one after the other.  The times of the response are in the form
\* asked for (HH:MM:SS), without the padding, as MM:SS, or with a fraction
\* of the second, the last second of the 100th hour among them; the
\* offsets are starts of planned chunks
TimeTexts ==
  {format_seconds_to_timestamp(5), format_seconds_to_timestamp(1799),
   format_seconds_to_timestamp(359999),
   <<"1", ":", "2", ":", "3">>,
   <<"0", "2", ":", "3", "3">>,
   <<"0", "2", ":", "3", "3", ".", "5", "0", "0">>,
   <<"0", "0", ":", "0", "2", ":", "3", "7", ".", "0", "0", "0">>}
PhraseTimes ==
  {<<format_seconds_to_timestamp(7), format_seconds_to_timestamp(9)>>,
   <<(<<"0", "2", ":", "3", "3", ".", "5", "0", "0">>),
     (<<"0", "2", ":", "3", "7", ".", "0", "0", "0">>)>>,
   <<(<<"0", "2", ":", "3", "3">>), (<<"0", "3", ":", "0", "1">>)>>}
Offsets == {0, chunk_size, 2 * chunk_size}
InitAdjust ==
  /\ total_duration_seconds = 0
  /\ chunks = <<>>
  /\ planner_pc = "ret"
  /\ NoGoogle /\ NoOpenRouter
  /\ DInit /\ active_provider = "Google"
  /\ \E s1 \in TimeTexts, s2 \in TimeTexts, n \in 0..MaxPhrases :
       \E times \in [1..n -> PhraseTimes] :
         analysis_response =
           <<[start_time |-> s1, end_time |-> s2, category |-> <<"n">>,
              description |-> <<>>,
              dialogue |-> [k \in 1..n |->
                              [start_time |-> times[k][1],
                               end_time |-> times[k][2],
                               phrase |-> <<"n">>]]]>>
  /\ analysis_moments = analysis_response
  /\ adjusted_by = <<>>
  /\ VideoIdle
NextAdjust ==
  \E chunk_start_offset \in Offsets :
    /\ Len(adjusted_by) < MaxAdjust
    /\ AdjustMoments(chunk_start_offset)
    /\ UNCHANGED <<total_duration_seconds, chunks, planner_pc, videoVars,
                   googleVars, dVars, openRouterVars>>
SpecAdjust == InitAdjust /\ [][NextAdjust]_vars

\* run_processing: `let video_chunks = if Path::new(&temp_chunks_dir)
\* .exists() && fs::read_dir(&temp_chunks_dir)?.next().is_some() { .. }`:
\* the planned chunks whose file is there, or split_video when the
\* directory is empty or none of them is there
RECURSIVE ExistingChunks(_, _)
ExistingChunks(plan, i) ==
  IF i >= Len(plan) THEN <<>>
  ELSE (IF i \in chunk_files THEN <<VideoChunk(plan[i + 1][1], i)>> ELSE <<>>)
       \o ExistingChunks(plan, i + 1)
UseChunks ==
  /\ split_pc = "chunks dir"
  /\ IF chunk_files # {}
        /\ ExistingChunks(calculate_chunks(total_duration_seconds), 0) # <<>>
     THEN /\ video_chunks' =
               ExistingChunks(calculate_chunks(total_duration_seconds), 0)
          /\ split_pc' = "analyze"
          /\ UNCHANGED split_i
     ELSE /\ video_chunks' = <<>>
          /\ split_i' = 0
          /\ split_pc' = "split_video"
  /\ UNCHANGED <<chunk_files, split_result>>
\* run_app: the run has ended with the error of split_video; the session
\* is resumed and run_processing is called again, the flag reset
ResumeAfterSplit ==
  /\ split_pc = "err"
  /\ split_pc' = "chunks dir"
  /\ split_result' = "none"
  /\ cancellation_token' = FALSE
  /\ UNCHANGED <<chunk_files, video_chunks, split_i>>
  /\ UNCHANGED <<d_pc, chunk_i, chunks_analyzed, active_provider,
                 chunk_result, sessionVars, runVars, appVars>>

\* the chunks of a run, from an empty cache directory, the user cancelling
\* and resuming
InitSplit ==
  /\ total_duration_seconds \in Durations
  /\ chunks = calculate_chunks(total_duration_seconds)
  /\ planner_pc = "ret"
  /\ analysis_response = <<>> /\ analysis_moments = <<>>
  /\ adjusted_by = <<>>
  /\ CommandIdle
  /\ hr_pc = "idle" /\ attempt = 1 /\ hr_result = "none" /\ commands = 0
  /\ split_pc = "chunks dir" /\ chunk_files = {} /\ video_chunks = <<>>
  /\ split_i = 0 /\ split_result = "none"
  /\ NoGoogle /\ NoOpenRouter
  /\ DInit /\ active_provider = "Google"
SplitFrame ==
  UNCHANGED <<total_duration_seconds, chunks, planner_pc, adjustVars,
              commandVars, downloadVars, googleVars, openRouterVars>>
NextSplit ==
  \/ Cancel /\ UNCHANGED <<plannerVars, googleVars, openRouterVars>>
  \/ UseChunks /\ SplitFrame /\ UNCHANGED dVars
  \/ SplitVideo(cancellation_token) /\ SplitFrame /\ UNCHANGED dVars
  \/ ResumeAfterSplit /\ SplitFrame
SpecSplit == InitSplit /\ [][NextSplit]_vars

\* download_high_res called by a run, for the fallback or before the
\* extraction, while the user may cancel
InitDownload ==
  /\ total_duration_seconds = 0
  /\ chunks = <<>>
  /\ planner_pc = "ret"
  /\ analysis_response = <<>> /\ analysis_moments = <<>>
  /\ adjusted_by = <<>>
  /\ CommandIdle
  /\ hr_pc = "loop" /\ attempt = 1 /\ hr_result = "none" /\ commands = 0
  /\ split_pc = "idle" /\ chunk_files = {} /\ video_chunks = <<>>
  /\ split_i = 0 /\ split_result = "none"
  /\ NoGoogle /\ NoOpenRouter
  /\ DInit /\ active_provider = "Google"
DownloadFrame ==
  UNCHANGED <<total_duration_seconds, chunks, planner_pc, adjustVars,
              splitVars, googleVars, dVars, openRouterVars>>
NextDownload ==
  \/ Cancel /\ UNCHANGED <<plannerVars, googleVars, openRouterVars>>
  \/ DownloadLoop(cancellation_token) /\ DownloadFrame
  \/ RunCommandSpawn(cancellation_token)
       /\ UNCHANGED <<hr_pc, attempt, hr_result>> /\ DownloadFrame
  \/ ChildExits(cancellation_token) /\ UNCHANGED <<hr_pc, attempt, hr_result>>
       /\ DownloadFrame
  \/ RunCommandOutput /\ UNCHANGED <<hr_pc, attempt, hr_result>> /\ DownloadFrame
  \/ RunCommandCancelled(cancellation_token)
       /\ UNCHANGED <<hr_pc, attempt, hr_result>> /\ DownloadFrame
  \/ DownloadMatch /\ DownloadFrame
  \/ DownloadSleep /\ DownloadFrame
SpecDownload == InitDownload /\ [][NextDownload]_vars

\* --------------------------------------------------------------- claims
RECURSIVE SumLengths(_)
SumLengths(cs) == IF cs = <<>> THEN 0 ELSE Head(cs)[2] + SumLengths(Tail(cs))

Contiguous(cs) ==
  /\ (cs # <<>> => cs[1][1] = 0)
  /\ \A i \in 1..(Len(cs) - 1) : cs[i + 1][1] = cs[i][1] + cs[i][2]

\* C1: for every total_duration >= 0 the plan is contiguous from 0 (each
\* start is the previous start plus length), every length is positive, the
\* lengths sum to total_duration, and the plan of 0 is empty.
C1_PlanCoversDuration ==
  planner_pc = "ret" =>
    /\ Contiguous(chunks)
    /\ \A i \in 1..Len(chunks) : chunks[i][2] > 0
    /\ SumLengths(chunks) = total_duration_seconds
    /\ (total_duration_seconds = 0 => chunks = <<>>)

C1_Witness ==
  planner_pc = "ret" /\ Len(chunks) >= 3 /\ chunks[Len(chunks)][2] # 1800

\* C2: with S = 1800 and M = 2700 a duration in 1..2700 gives the single
\* segment (0, total), 5400 gives three segments of 1800, 4000 gives
\* (0,1800),(1800,2200); a remainder <= M is emitted as the one final
\* segment, and only such a remainder ends the plan.
C2_Examples ==
  planner_pc = "ret" =>
    LET t == total_duration_seconds IN
    /\ (0 < t /\ t <= 2700 => chunks = <<(<<0, t>>)>>)
    /\ (t = 5400 => chunks = << <<0, 1800>>, <<1800, 1800>>, <<3600, 1800>> >>)
    /\ (t = 4000 => chunks = << <<0, 1800>>, <<1800, 2200>> >>)
    /\ \A i \in 1..Len(chunks) :
          IF i = Len(chunks)
          THEN chunks[i][2] = t - chunks[i][1] /\ chunks[i][2] <= 2700
          ELSE t - chunks[i][1] > 2700 /\ chunks[i][2] = 1800

C2_Witness ==
  planner_pc = "ret" /\ total_duration_seconds = 4000 /\ Len(chunks) = 2

\* C3: a get_active_key call that starts after a disable_key call has
\* completed never returns the entry that call disabled, whatever the
\* interleaving of the callers' atomic steps.
C3_DisabledNeverReturned ==
  \A p \in Procs : pc[p] = "ret" => result[p] \cap seen_disabled[p] = {}

C3_Witness ==
  \E p \in Procs :
    /\ pc[p] = "ret"
    /\ total_keys > 0
    /\ (start_index[p] % total_keys) \in seen_disabled[p]
    /\ result[p] # None

AllDisabled == \A i \in DOMAIN api_keys : ~api_keys[i].enabled

\* C4: get_active_key always terminates: inside the loop a step is always
\* possible, every step either returns or counts one more entry found
\* disabled, that count never exceeds the pool size, and a call returning
\* while every entry is disabled (or the pool is empty) returns none.
C4_LoopStep(p) ==
  /\ (pc[p] = "get_loop" /\ <<pc[p], attempts[p]>>' # <<pc[p], attempts[p]>>)
       => \/ pc'[p] = "ret" /\ attempts'[p] = attempts[p]
          \/ pc'[p] = "get_loop" /\ attempts'[p] = attempts[p] + 1
  /\ (pc[p] # "ret" /\ AllDisabled /\ pc'[p] = "ret") => result'[p] = None

C4_GetActiveKeyTerminates ==
  /\ [](\A p \in Procs :
          /\ attempts[p] <= total_keys
          /\ pc[p] = "get_loop" => ENABLED GetActiveKeyLoop(p))
  /\ [][\A p \in Procs : C4_LoopStep(p)]_vars

C4_Witness ==
  \E p \in Procs :
    /\ pc[p] = "ret" /\ result[p] = None
    /\ total_keys >= 2 /\ attempts[p] = total_keys
    /\ start_index[p] % total_keys # 0

\* C5: get_active_key starts at the cursor it loaded (mod pool size), goes
\* forward with wrap-around past entries it found disabled, returns the
\* first entry whose flag it finds true, returns none only with every entry
\* inspected once, and changes neither the cursor nor a flag.
C5_Returned(p) ==
  (pc[p] = "ret" /\ total_keys > 0) =>
    LET n == total_keys
        scanned == {(start_index[p] + k) % n : k \in 0..(attempts[p] - 1)}
    IN /\ \A i \in scanned : ~api_keys[i].enabled
       /\ Cardinality(scanned) = attempts[p]
       /\ (result[p] = None => scanned = DOMAIN api_keys)
       /\ (result[p] # None =>
             /\ attempts[p] < n
             /\ result[p] = Some((start_index[p] + attempts[p]) % n))

C5_GetStep(p) ==
  /\ (pc[p] = "idle" /\ pc'[p] = "get_loop") =>
       start_index'[p] = current_key_index /\ attempts'[p] = 0
  /\ (pc[p] = "get_loop" /\ pc'[p] = "ret") =>
       \A i \in result'[p] : api_keys[i].enabled
  /\ (pc'[p] \in {"get_loop", "ret"} /\
      (pc'[p] # pc[p] \/ attempts'[p] # attempts[p])) =>
       UNCHANGED poolVars

Position(k, n) == IF n = 0 THEN 0 ELSE k % n

\* C6: rotation is an atomic read-modify-write in both clients: with no
\* rotate_key call in progress the cursor position is the number of
\* rotate_key calls completed (mod pool size), so none of them is lost.
C6_GoogleRotations ==
  (\A p \in Procs : pc[p] # "disable_rotate") =>
     Position(current_key_index, total_keys) = Position(rotations, total_keys)

C6_OpenRouterRotations ==
  (\A p \in Procs : or_pc[p] = "idle") =>
     Position(or_current_key_index, or_len) = Position(or_rotations, or_len)

C6_RotationAtomic == C6_GoogleRotations /\ C6_OpenRouterRotations

\* C7: disable_key(secret) stores false into the flag of the entry whose
\* secret matches (the first one) and into no other flag, stores nothing
\* when no entry matches, and then advances the cursor by one.
C7_Step(p) ==
  /\ (pc[p] = "idle" /\ pc'[p] = "disable_rotate") =>
       LET match == {i \in DOMAIN api_keys :
                       api_keys[i].value = key_value'[p]}
       IN /\ current_key_index' = current_key_index
          /\ DOMAIN api_keys' = DOMAIN api_keys
          /\ (match = {} => api_keys' = api_keys)
          /\ (match # {} =>
                \E i \in match :
                  /\ \A j \in match : i <= j
                  /\ api_keys' = [api_keys EXCEPT ![i].enabled = FALSE])
  /\ (pc[p] = "disable_rotate" /\ pc'[p] # pc[p]) =>
       /\ pc'[p] = "idle"
       /\ current_key_index' = current_key_index + 1
       /\ api_keys' = api_keys

C7_DisableKeyFrame == [][\A p \in Procs : C7_Step(p)]_vars

C7_Witness ==
  /\ \E i \in disabled_done, j \in DOMAIN api_keys :
       /\ api_keys[j].value = api_keys[i].value
       /\ api_keys[j].enabled /\ ~api_keys[i].enabled
  /\ \E i \in DOMAIN api_keys, j \in DOMAIN api_keys :
       api_keys[i].value # api_keys[j].value
  /\ current_key_index > 0

\* C8: every flag starts true; a step changes a flag only from true to
\* false, and only the step of process_chunk that handles an analysis error
\* by which the provider reported quota exhaustion (code 429, status
\* RESOURCE_EXHAUSTED or a quota text) for the secret of the attempt's key;
\* no entry is removed or rewritten.
C8_Step ==
  /\ DOMAIN api_keys' = DOMAIN api_keys
  /\ \A i \in DOMAIN api_keys :
       /\ api_keys'[i].name = api_keys[i].name
       /\ api_keys'[i].value = api_keys[i].value
       /\ (~api_keys[i].enabled => ~api_keys'[i].enabled)
       /\ (api_keys[i].enabled /\ ~api_keys'[i].enabled) =>
            /\ g_pc = "analyze"
            /\ last_result'.kind = "Gemini API error"
            /\ \/ last_result'.code = 429
               \/ last_result'.status = "RESOURCE_EXHAUSTED"
               \/ last_result'.quota_text
            /\ \E k \in key_arc : api_keys[k].value = api_keys[i].value

C8_FlagsOnlyFall ==
  /\ \A i \in DOMAIN api_keys : api_keys[i].enabled
  /\ [][C8_Step]_vars

C8_Witness ==
  /\ \E i \in DOMAIN api_keys : ~api_keys[i].enabled
  /\ \E i \in DOMAIN api_keys : api_keys[i].enabled
  /\ chunks_analyzed >= 1
  /\ g_pc = "upload"

\* C9: whatever the key list (equal secrets included), once an attempt has
\* ended in a quota failure on its key, that key is disabled before the
\* next attempt starts, and the next attempt runs on another key, one that
\* is enabled.
C9_QuotaKeyDisabledThenAvoided ==
  quota_key # None =>
    /\ g_pc \in {"loop", "get_active_key", "upload"} =>
         \A i \in quota_key : ~api_keys[i].enabled
    /\ g_pc = "upload" =>
         /\ key_arc \cap quota_key = {}
         /\ \A i \in key_arc : api_keys[i].enabled

\* C10: with the OpenRouter client no request is sent with a key for which
\* the provider has answered 429 earlier in the run.
C10_QuotaKeyNotReused ==
  o_pc = "send" => o_key \cap or_quota_keys = {}

\* C12: the readiness poll loop makes at most 60 polls: a poll that reports
\* ACTIVE ends the wait with success (the analysis follows), a poll that
\* reports FAILED ends it with an error, any other state is polled again,
\* and after 60 polls that reported neither the wait ends with the timeout
\* error.  (A poll whose request or parse fails ends the wait with that
\* error.)
C12_Step ==
  g_pc = "wait" =>
    \/ /\ polls < PollLimit
       /\ last_result'.kind = "ACTIVE"
       /\ g_pc' = "analyze"
    \/ /\ polls < PollLimit
       /\ last_result'.kind = "File processing failed"
       /\ g_pc' = "loop"
    \/ /\ polls < PollLimit
       /\ last_result'.kind = "PROCESSING"
       /\ g_pc' = "wait" /\ polls' = polls + 1
    \/ /\ polls < PollLimit
       /\ last_result'.kind \in {"Failed to check file status",
                                 "Failed to parse file status"}
       /\ g_pc' = "loop"
    \/ /\ polls = PollLimit
       /\ last_result'.kind = "File processing timed out"
       /\ g_pc' = "loop"
    \/ UNCHANGED <<g_pc, polls, last_result>>

C12_PollLoopBounded == [](polls <= PollLimit) /\ [][C12_Step]_vars

C12_Witness == g_pc = "wait" /\ polls = PollLimit /\ chunk_i >= 1

\* C11: within one attempt of process_chunk every request (the upload, each
\* readiness poll, the analysis) is sent with the one key selected at the
\* start of the attempt, whatever the other callers do to the cursor and
\* the flags meanwhile.
C11_StickySession ==
  /\ Cardinality(key_arc) <= 1
  /\ request_keys \subseteq key_arc

C11_Witness ==
  /\ g_pc = "analyze"
  /\ request_keys = key_arc
  /\ \E i \in key_arc :
       /\ ~api_keys[i].enabled
       /\ current_key_index % total_keys # i

\* C20: session round trip: once save_session has returned Ok, the text on
\* disk parses to the state that was saved, and after the program has been
\* started again the load yields a session equal to it (url, the moments
\* in their order with their dialogue, working directory) and asks whether
\* to resume
C20_RoundTrip ==
  save_pc = "ok" =>
    /\ session_file.kind = "file"
    /\ from_str(session_file.text).ok
    /\ screen \in {"Processing", "MainMenu"} =>
         from_str(session_file.text).v = SessionState(url, all_moments, temp_dir)
    /\ screen \in {"UrlInput", "ResumePrompt"} =>
         /\ screen = "ResumePrompt"
         /\ session = Some(SessionState(url, all_moments, temp_dir))
C20_Witness ==
  /\ screen = "ResumePrompt"
  /\ \E s \in session :
       /\ s = SessionState(url, all_moments, temp_dir)
       /\ Len(s.moments) = 2
       /\ Len(s.moments[2].dialogue) = 1
       /\ s.moments[1].start_time # s.moments[1].end_time
       /\ \E i \in 1..Len(s.youtube_url) : s.youtube_url[i] = Backslash
       /\ \E i \in 1..Len(s.temp_dir) : s.temp_dir[i] = Quote

\* C19: loading a session never fails the program: leaving the main menu
\* with a session file that is missing, unreadable or unparsable shows the
\* URL input with no session to resume, and only a file that parses shows
\* the resume prompt, with the session the file holds
C19_Parsable == session_file.kind = "file" /\ from_str(session_file.text).ok
C19_Step ==
  screen = "MainMenu" /\ screen' # "MainMenu" =>
    IF C19_Parsable
    THEN screen' = "ResumePrompt"
         /\ session' = Some(from_str(session_file.text).v)
    ELSE screen' = "UrlInput" /\ session' = None
C19_LoadNeverFails ==
  /\ [](screen \in {"Processing", "MainMenu", "UrlInput", "ResumePrompt",
                    "FormatConfirm"})
  /\ [][C19_Step]_vars
C19_Witness ==
  /\ screen = "UrlInput"
  /\ session_file.kind = "file"
  /\ Len(session_file.text) > 3
  /\ ~from_str(session_file.text).ok
  /\ session = None

\* C18: save_session is atomic with respect to crashes: when the process
\* has stopped during a save, the file holds the complete previous contents
\* or the complete text of the state being saved
C18_SaveAtomic ==
  save_pc = "stopped" =>
    session_file \in
      {saved_before,
       File(to_string_pretty(SessionState(url, all_moments, temp_dir)))}

\* C17: after every successfully analyzed chunk the session is persisted
\* before the next chunk starts: at the head of the loop the file holds the
\* session whose moments are the list in memory, which is the list the run
\* received extended by the results of the chunks completed so far, in the
\* order they completed; and within the loop the file is written nowhere
\* else, so not while a chunk is in progress
SessionFileOf(moments) ==
  File(to_string_pretty(SessionState(url, moments, temp_dir)))
C17_AtBoundary ==
  d_pc = "for" =>
    /\ session_file = SessionFileOf(all_moments)
    /\ from_str(session_file.text).ok
    /\ from_str(session_file.text).v.moments = all_moments
    /\ all_moments = Extended(existing, completed)
    /\ \A k \in 1..Len(completed) : completed[k] < chunk_i
C17_Step ==
  (d_pc \in {"for", "process_chunk"} /\ session_file' # session_file) =>
    /\ d_pc = "process_chunk" /\ d_pc' \in {"for", "failed"}
    /\ chunk_result = "ok"
    /\ completed' = Append(completed, chunk_i)
C17_PersistedAtChunkBoundary == []C17_AtBoundary /\ [][C17_Step]_vars
C17_Witness ==
  /\ d_pc = "for"
  /\ chunk_i = 2
  /\ completed = <<0, 1>>
  /\ existing # <<>>
  /\ Len(all_moments) = Len(existing) + 2

\* C16: chunks are dispatched in planner order and one at a time: in the
\* aggregated list no moment of a later chunk stands before a moment of an
\* earlier chunk, the chunks completed are in increasing order, and
\* process_chunk is entered only at the head of the loop, for the chunk
\* after the ones dispatched before
C16_Ordered ==
  \A p, q \in 1..Len(all_moments) :
    p < q => ChunkOf(all_moments[p]) <= ChunkOf(all_moments[q])
C16_OneAtATime ==
  /\ \A p, q \in 1..Len(completed) : p < q => completed[p] < completed[q]
  /\ d_pc # "process_chunk" => g_pc = "idle"
C16_PlannerOrder == C16_Ordered /\ C16_OneAtATime

\* C14: when the dispatcher finds the flag set at the head of a chunk, it
\* starts no further process_chunk call and the value it returns carries
\* all moments accumulated so far
C14_CancelledReturnsMoments ==
  d_pc = "cancelled" =>
    /\ g_pc = "idle"
    /\ returned = Some(all_moments)

\* C13: when the flag is set while chunk k is in the readiness poll loop,
\* chunk k is not completed: its result is never appended and the session
\* file keeps the moments it held when the chunk began
C13_CancelledWhilePolling ==
  \A k \in cancelled_polling :
    /\ \A j \in 1..Len(completed) : completed[j] # k
    /\ session_file = SessionFileOf(Extended(existing, completed))

\* C15: the flag is written false only when a task is started, and then no
\* task that still reads the flag is running; so once set during a run it
\* stays set until that run's task has stopped reading it
C15_Step ==
  (\/ cancellation_token /\ ~cancellation_token'
   \/ \E t \in 1..MaxTasks : ~Running(t) /\ tasks'[t].pc = "run")
  => /\ \E t \in 1..MaxTasks : ~Running(t) /\ tasks'[t].pc = "run"
     /\ \A u \in 1..MaxTasks : ~Polling(u)
C15_FlagKeptForRun == [][C15_Step]_vars

\* C21: on resume no chunk the interrupted run had analysed (its moments
\* are in the session the run received) is handed to process_chunk again,
\* and the list holds no more moments of a chunk than the provider found
\* in it.
CountOf(moments, c) ==
  Cardinality({k \in 1..Len(moments) : ChunkOf(moments[k]) = c})
C21_NoChunkTwice ==
  /\ d_pc = "process_chunk" =>
       \A k \in 1..Len(existing) : ChunkOf(existing[k]) # chunk_i + 1
  /\ \A c \in 1..Len(chunks) :
       CountOf(all_moments, c) <= Len(provider_moments[c])

\* C22: the session file is gone once the run has ended in success (the
\* clips extracted, no moment found, or the fallback download complete),
\* and a cancelled run leaves the file and the working directory in place.
C22_SessionFileAtEnd ==
  /\ d_pc \in {"extracted", "no moments", "fallback done"} =>
       session_file = Missing
  /\ d_pc \in {"cancelled", "extraction cancelled"} =>
       session_file # Missing /\ temp_dir_exists

\* C23: when the keys are exhausted before a chunk of the run has been
\* analysed, no further chunk is dispatched and, by the time the run
\* returns, the fallback download has been started exactly once.
C23_FallbackOnce ==
  (exhausted /\ chunks_analyzed = 0) =>
    /\ d_pc \notin {"for", "process_chunk"}
    /\ fallback_downloads <= 1
    /\ run_result # "none" => fallback_downloads = 1

\* C24: a run whose loop was left because the keys were exhausted returns
\* an error, never Ok.
C24_ExhaustionIsError ==
  (exhausted /\ run_result # "none") => run_result = "Err"

\* C25: a run whose configuration holds no enabled key of the active
\* provider ends with the fallback download started.
C25_NoKeyFallback ==
  (enabled_keys = 0 /\ run_result # "none") => fallback_downloads = 1

\* C26: process_chunk makes a bounded number of attempts for a chunk, three
\* times the size of the pool say: every attempt but the running one has
\* ended with one fetch_add on the cursor, so during the call for the first
\* chunk the attempts made are the rotations plus the running one.
C26_AttemptsBounded ==
  (chunk_i = 0 /\ g_pc \in {"upload", "wait", "analyze"}) =>
    rotations + 1 <= 3 * total_keys

\* C27: adjusting by 0 leaves every moment as it was, and adjusting by a
\* and then by b gives what adjusting once by a + b gives, whatever the
\* texts of the times and the number of dialogue phrases.
C27_RebaseLaws ==
  /\ (Len(adjusted_by) = 1 /\ adjusted_by[1] = 0) =>
       analysis_moments = analysis_response
  /\ Len(adjusted_by) = 2 =>
       analysis_moments =
         AdjustTimestamps(analysis_response, adjusted_by[1] + adjusted_by[2])
C27_Witness ==
  /\ Len(adjusted_by) = 2
  /\ adjusted_by[1] > 0 /\ adjusted_by[2] > 0
  /\ analysis_response[1].dialogue # <<>>
  /\ parse_timestamp_to_seconds(analysis_response[1].start_time) = None
  /\ analysis_moments # analysis_response

\* C28: after the adjustment by the start o of the chunk, every time of a
\* moment and of its dialogue denotes the time the provider's text denotes
\* plus o, for the texts HH:MM:SS and MM:SS, with or without a fraction of
\* the second.
WholeSeconds(part) ==
  IF \A k \in 1..Len(part) : part[k] # "." THEN part
  ELSE SubSeq(part, 1, (CHOOSE k \in 1..Len(part) :
                          part[k] = "." /\ \A j \in 1..(k - 1) : part[j] # ".") - 1)
Denoted(time) ==
  IF Len(Split(time)) = 3
  THEN 3600 * ValueOf(Split(time)[1]) + 60 * ValueOf(Split(time)[2])
       + ValueOf(WholeSeconds(Split(time)[3]))
  ELSE 60 * ValueOf(Split(time)[1]) + ValueOf(WholeSeconds(Split(time)[2]))
C28_Moved(stored, given, o) ==
  /\ Denoted(stored.start_time) = Denoted(given.start_time) + o
  /\ Denoted(stored.end_time) = Denoted(given.end_time) + o
C28_TimesMovedByOffset ==
  Len(adjusted_by) = 1 =>
    \A k \in 1..Len(analysis_response) :
      /\ C28_Moved(analysis_moments[k], analysis_response[k], adjusted_by[1])
      /\ \A d \in 1..Len(analysis_response[k].dialogue) :
           C28_Moved(analysis_moments[k].dialogue[d],
                     analysis_response[k].dialogue[d], adjusted_by[1])

\* C29: a source of 5000 s and a pool of two keys with different secrets.
\* When the analysis of chunk 2 with key 1 (entry 0) ends in a quota error,
\* key 1 is disabled and nothing else, and chunk 2 stays the chunk in
\* progress; every later attempt on chunk 2 is made with key 2 (entry 1),
\* also the one that succeeds; the list is the moments of the chunks
\* completed, in planner order, each moved by the start of its chunk (1800
\* for chunk 2).  As stated, with a plan of two chunks:
C29_Scenario ==
  /\ total_duration_seconds = 5000
  /\ total_keys = 2
  /\ api_keys[0].value # api_keys[1].value
C29_Retried ==
  (chunk_i = 1 /\ ~api_keys[0].enabled
   /\ g_pc \in {"upload", "wait", "analyze", "ok"}) => key_arc = {1}
C29_List ==
  /\ d_pc \in {"for", "after loop"} =>
       /\ all_moments = Extended(<<>>, completed)
       /\ completed = [k \in 1..Len(completed) |-> k - 1]
  /\ \A k \in 1..Len(all_moments) :
       /\ all_moments[k].start_time =
            format_seconds_to_timestamp(
              RawSeconds(provider_moments[k][1].start_time) + chunks[k][1])
       /\ all_moments[k].end_time =
            format_seconds_to_timestamp(
              RawSeconds(provider_moments[k][1].end_time) + chunks[k][1])
C29_Plan ==
  C29_Scenario =>
    /\ chunks = << <<0, 1800>>, <<1800, 1800>>, <<3600, 1400>> >>
    /\ C29_Retried
    /\ C29_List
C29_Step ==
  (/\ C29_Scenario
   /\ chunk_i = 1 /\ g_pc = "analyze" /\ key_arc = {0}
   /\ g_pc' # "analyze" /\ IsQuota(last_result'))
  => /\ ~api_keys'[0].enabled
     /\ api_keys'[1] = api_keys[1]
     /\ g_pc' = "disable_key"
     /\ d_pc' = "process_chunk" /\ chunk_i' = 1
     /\ all_moments' = all_moments
C30_NoChunkSkipped ==
  \A k \in 0..(chunk_i - 1) : \E j \in 1..Len(completed) : completed[j] = k

\* C33: parsing the text format_seconds_to_timestamp gives for s seconds
\* gives s back, for 100 hours and more too, and that text has three
\* fields between colons with minutes and seconds below 60.  Every time
\* stored after an adjustment by a positive offset is such a text, of the
\* seconds parsed from the response (0 when that failed) plus the offsets.
RECURSIVE C33_Sum(_)
C33_Sum(offsets) ==
  IF offsets = <<>> THEN 0 ELSE Head(offsets) + C33_Sum(Tail(offsets))
C33_Formatted ==
  UNION {{<<analysis_moments[k].start_time, analysis_response[k].start_time>>,
          <<analysis_moments[k].end_time, analysis_response[k].end_time>>}
         \cup UNION {{<<analysis_moments[k].dialogue[d].start_time,
                         analysis_response[k].dialogue[d].start_time>>,
                       <<analysis_moments[k].dialogue[d].end_time,
                         analysis_response[k].dialogue[d].end_time>>} :
                        d \in 1..Len(analysis_response[k].dialogue)} :
           k \in 1..Len(analysis_response)}
C33_FormatParse ==
  C33_Sum(adjusted_by) > 0 =>
    \A t \in C33_Formatted :
      /\ parse_timestamp_to_seconds(t[1]) =
           Some(unwrap_or(parse_timestamp_to_seconds(t[2]), 0)
                + C33_Sum(adjusted_by))
      /\ Len(Split(t[1])) = 3
      /\ \A k \in 2..3 :
           /\ ParseU64(Split(t[1])[k]) # None
           /\ \A v \in ParseU64(Split(t[1])[k]) : v < 60
C33_Witness ==
  /\ Len(adjusted_by) = 2 /\ adjusted_by[1] > 0 /\ adjusted_by[2] > 0
  /\ \E t \in C33_Formatted :
       /\ \E s \in parse_timestamp_to_seconds(t[1]) : s >= 100 * 3600
       /\ Len(Split(t[1])[1]) = 3

\* C40: in the plan calculate_chunks returns, every segment but the last
\* is chunk_size long, the last is at most max_last_chunk long, and in a
\* plan of two or more segments the last is longer than max_last_chunk -
\* chunk_size (15 minutes).
C40_NoOrphanTail ==
  planner_pc = "ret" =>
    /\ \A k \in 1..(Len(chunks) - 1) : chunks[k][2] = chunk_size
    /\ Len(chunks) >= 1 => chunks[Len(chunks)][2] <= max_last_chunk
    /\ Len(chunks) >= 2 =>
         chunks[Len(chunks)][2] > max_last_chunk - chunk_size
C40_Witness ==
  /\ planner_pc = "ret"
  /\ Len(chunks) = 3
  /\ chunks[3][2] = max_last_chunk - chunk_size + 1

\* C34: OpenRouterClient::process_chunk sends at most max(pool size, 3)
\* requests for one chunk and, when that many have failed, returns its
\* error, and not before; after a request that failed or was answered 429,
\* 401 or 402 the cursor is on the next key, after any other status that
\* is not a success it is on the key of the request.
C34_Limit == IF or_len >= 3 THEN or_len ELSE 3
C34_Rotating == {0, 429, 401, 402}
C34_Requests ==
  /\ o_attempts <= C34_Limit
  /\ o_pc \in {"send", "attempted"} => o_attempts < C34_Limit
  /\ o_pc = "attempted" =>
       /\ o_response # None
       /\ \A r \in o_response, k \in o_key :
            IF or_pc[Main] = "rotate_store"
            THEN /\ r.status \in C34_Rotating
                 /\ or_current_key_index = k
                 /\ or_next[Main] = (k + 1) % or_len
            ELSE or_current_key_index =
                   IF r.status \in C34_Rotating THEN (k + 1) % or_len ELSE k
C34_Step ==
  (o_pc = "while" /\ o_pc' # "while") =>
    /\ o_attempts >= C34_Limit <=> o_pc' = "err"
    /\ o_pc' = "err" =>
         chunk_result' =
           "Failed to process chunk with OpenRouter after multiple attempts"
C31_Unparsable ==
  [status : {200}, body : {"not json", "not a moment list"}]
C31_UnparsableKinds ==
  {"Failed to parse Gemini response", "No response from Gemini",
   "Failed to parse structured moments JSON"}
C31_UnparsableIsRetried ==
  /\ (o_response \cap C31_Unparsable # {}) => o_pc \notin {"ok", "err"}
  /\ last_result.kind \in C31_UnparsableKinds => g_pc \notin {"ok", "err"}

\* C32: every start and end time of a moment a client has returned for a
\* chunk is a text HH:MM:SS, the text format_seconds_to_timestamp writes
\* for the seconds parse_timestamp_to_seconds reads in it, with either
\* client.
C32_Timestamp(time) ==
  \E s \in parse_timestamp_to_seconds(time) :
    format_seconds_to_timestamp(s) = time
C32_OneShape ==
  \A k \in (Len(existing) + 1)..Len(all_moments) :
    /\ C32_Timestamp(all_moments[k].start_time)
    /\ C32_Timestamp(all_moments[k].end_time)

\* C39: GoogleClient::process_chunk returns an error only from the head of
\* an attempt, when get_active_key finds no enabled key, and the error is
\* "No active API keys available".  An attempt that has its key never ends
\* in an error: whatever fails in the upload, the poll loop or the analysis,
\* process_chunk goes back to the head of the loop (or returns the
\* moments), and at the end of the attempt the cursor is one further than
\* at its start; no other step of process_chunk moves the cursor.
C39_InAttempt == g_pc \in {"upload", "wait", "analyze", "disable_key"}
C39_Error ==
  g_pc = "err" =>
    /\ chunk_result = "No active API keys available"
    /\ key_arc = None
    /\ \A i \in DOMAIN api_keys : ~api_keys[i].enabled
C39_Step ==
  /\ g_pc' = "err" => g_pc \in {"get_active_key", "err"}
  /\ current_key_index' =
       IF C39_InAttempt /\ g_pc' \in {"loop", "ok"}
       THEN current_key_index + 1
       ELSE current_key_index
C38_DoneAfterExtraction ==
  screen = "Done" =>
    \A t \in 1..MaxTasks : ~(Running(t) /\ tasks[t].kind = "extraction")
C38_Step ==
  (screen = "ShortsConfirm" /\ screen' # "ShortsConfirm") => ui_pc = "key"
C38_PromptKept == []C38_DoneAfterExtraction /\ [][C38_Step]_vars

\* C35: download_high_res spawns its command at most 3 times.  It returns
\* Ok as soon as a command has ended with success, the error "yt-dlp failed
\* after 3 attempts" when the command of attempt 3 has failed, and tries
\* again after an earlier failure; the flag is loaded at the head of every
\* pass, before the command, and a pass that finds it set returns "Process
\* cancelled by user" without a command.
C35_Attempts ==
  /\ commands <= 3 /\ attempt <= 3
  /\ commands <= attempt
  /\ hr_result = "Ok" => cmd_result = "success"
  /\ hr_result = "yt-dlp failed after 3 attempts" =>
       (commands = 3 /\ cmd_result = "failure")
C35_Step ==
  /\ commands' # commands =>
       (commands' = commands + 1 /\ hr_pc = "command" /\ cmd_pc = "spawn")
  /\ (cmd_pc # "spawn" /\ cmd_pc' = "spawn") =>
       (hr_pc = "loop" /\ ~cancellation_token)
  /\ (hr_pc = "loop" /\ cancellation_token /\ hr_pc' # "loop") =>
       /\ hr_pc' = "ret"
       /\ hr_result' = "Process cancelled by user"
       /\ commands' = commands
  /\ (hr_pc = "command" /\ hr_pc' # "command") =>
       /\ cmd_result = "success" => (hr_pc' = "ret" /\ hr_result' = "Ok")
       /\ cmd_result = "failure" =>
            IF attempt = 3
            THEN hr_pc' = "ret" /\ hr_result' = "yt-dlp failed after 3 attempts"
            ELSE hr_pc' = "sleep"
       /\ cmd_result \notin {"success", "failure"} =>
            (hr_pc' = "ret" /\ hr_result' = cmd_result)
C35_DownloadBounded == []C35_Attempts /\ [][C35_Step]_vars
C35_Witness ==
  /\ hr_pc = "ret"
  /\ hr_result = "yt-dlp failed after 3 attempts"
  /\ commands = 3
  /\ ~cancellation_token

\* C36: when run_command_with_cancellation has returned for a child it
\* spawned, it has returned the output of the child only if the flag was
\* unset when the call was made and when the child ended, and the error
\* "Process cancelled by user" otherwise, the child being killed unless it
\* had ended; that error is returned only with the flag set.
C36_Outputs == {"success", "failure", "Failed to wait on child process"}
C36_OneOutcome ==
  (cmd_pc = "ret" /\ child # "none") =>
    /\ cmd_result \in C36_Outputs =>
         /\ child \in {"success", "failure"}
         /\ ~called_cancelled /\ ~exited_cancelled
    /\ cmd_result \notin C36_Outputs =>
         /\ cmd_result = "Process cancelled by user"
         /\ cancellation_token
         /\ child \in {"killed", "success", "failure"}

\* C37: the chunks handed to the analysis are the chunks of the plan for
\* the duration of the source, one for one and in order, also when the run
\* finds chunk files of an earlier run in the cache directory.
C37_AllPlannedChunks ==
  split_pc = "analyze" =>
    /\ Len(video_chunks) = Len(chunks)
    /\ \A k \in 1..Len(video_chunks) :
         video_chunks[k] = VideoChunk(chunks[k][1], k - 1)
====
